---- MODULE Spec2Model ----
(***************************************************************************)
(* Handle-lifetime and binding-safety layer of the Vue SFC compiler        *)
(* bindings (crates/libvue_compiler_sfc).                                  *)
(*                                                                         *)
(* The engine (Hermes runtime + handle table) is an external collaborator: *)
(* every entry point is modelled by what its contract lets it return (a    *)
(* fresh nonzero handle, or the sentinel 0).  The Rust layer is modelled   *)
(* operation by operation: Compiler, Handle, the typed views, their drops. *)
(* The borrow rules the types state (Handle<'c> borrows its Compiler, a    *)
(* returned &str borrows its wrapper, Compiler is Send and not Sync) are   *)
(* the guards of the actions.                                              *)
(***************************************************************************)
EXTENDS Integers, FiniteSets, Sequences

\* ------------------------------------------------------------- constants
\* HermesHandle::INVALID, the sentinel NonZeroU64::new rejects.
INVALID == 0
\* A null HermesRuntime, what hermes_runtime_create returns on failure.
NULL == 0

\* ------------------------------------------------------------------ bounds
\* Objects the engine hands out to be wrapped (parse results, descriptors,
\* blocks, compile results) in one run, over all its runtimes.
MaxHandles == 3
\* Bindings handles the engine hands out in one run.
MaxBindings == 1
\* Borrowed string views (&str) alive at one time.
MaxViews == 1
\* Import-binding handles the engine hands out in one run.
MaxImports == 2
\* Style blocks or custom blocks one descriptor reports (style_count).
MaxBlocks == 2
\* Parse errors one parse result reports (error_count).
MaxErrors == 1
\* Style-block handles the engine hands out to has_scoped_style() in one run.
MaxStyles == 2
\* Attributes one block reports (vue_block_attrs_count).
MaxAttrs == 2
\* Entries a list accessor (warnings, deps, css_vars, bindings) is given per call.
MaxItems == 2
\* Bytes of a string argument of the superseded generations.
MaxLen == 2
\* Templates in one compile_batch call.
MaxTemplates == 1
\* Objects the engine hands out to be wrapped in one run of the example's
\* compile() (parse result, descriptor, script result, a block, its output).
MaxPipeline == 5

\* The two threads of the host process (thread A and thread B).
Threads == {1, 2}
NoThread == 0
\* The one thread of a run that never moves its Compiler.
Ref == 3
AllThreads == Threads \cup {Ref}
\* The runtimes the engine can create (Compilers A and B), as pointers.
Rt == {1, 2}
\* Runtime pointers, NULL included (a Compiler is never built over NULL).
RtPtr == {NULL} \cup Rt
\* Raw handle values, INVALID included.
Hnd == 0..(MaxHandles + MaxBindings + MaxImports + MaxStyles)

Kinds == {"ParseOutput", "Descriptor", "TemplateBlock", "ScriptBlock",
          "StyleBlock", "CustomBlock", "ScriptOutput", "TemplateOutput",
          "StyleOutput", "Bindings", "ImportBinding"}

VARIABLES
    \* ---- engine (one handle table per runtime)
    rtState,      \* [RtPtr -> {"none","created","inuse","destroyed"}]
    nextH,        \* [RtPtr -> Nat]: next handle a runtime issues
    issued,       \* handles issued so far: [wrapped, bindings, imports, styles -> Nat]
    live,         \* [RtPtr -> SUBSET Hnd]: entries of the handle table
    kind,         \* [RtPtr -> [Hnd -> Kinds \cup {"none"}]]: object behind a handle
    \* ---- Rust layer
    comp,         \* [RtPtr -> {"none","live","dropped"}]: the Compiler over a runtime
    owner,        \* [RtPtr -> AllThreads \cup {NoThread}]: thread owning the Compiler
    wrappers,     \* [RtPtr -> [Hnd -> Nat]]: live Handle wrappers over (runtime, raw)
    views,        \* set of <<rt, raw>>: live &str borrowed from a wrapper
    iter,         \* the live styles()/custom_blocks() iterator, or NoIter
    busy,         \* [AllThreads -> SUBSET RtPtr]: runtimes a thread has a call in progress on
    \* ---- history of the engine calls the layer issued
    built,        \* [RtPtr -> [Hnd -> Nat]]: Handle wrappers constructed over (rt, raw)
    freeCalls,    \* [RtPtr -> [Hnd -> Nat]]: hermes_handle_free(rt, h) calls
    destroyCalls, \* [RtPtr -> Nat]: hermes_runtime_destroy(rt) calls
    lateCall,     \* an engine call targeted a destroyed runtime
    foreign,      \* an engine call on rt was passed a handle another runtime issued
    staleRead,    \* a borrowed string was read after its handle was freed
    panicked,     \* an expect() in the layer failed
    newFailed,    \* an earlier Compiler::new returned Err
    trace,        \* engine calls of the call in progress: <<fn, runtime, arg, answer>>
    yielded,      \* what the last operation returned
    pc,           \* where the example program (main and compile) stands
    input         \* arguments given to the entry points of the superseded generations

vars == <<rtState, nextH, issued, live, kind, comp, owner, wrappers, views, iter, busy,
          built, freeCalls, destroyCalls, lateCall, foreign, staleRead,
          panicked, newFailed, trace, yielded, pc, input>>

engineVars == <<rtState, nextH, issued, live, kind>>
ghostFlags == <<lateCall, foreign, staleRead, panicked, newFailed>>

NoIter == [rt |-> NULL, raw |-> INVALID, of |-> "none", idx |-> 0, count |-> 0]

\* ------------------------------------------------------------------ engine
Limit(class) ==
    CASE class = "wrapped" -> IF pc = "-" THEN MaxHandles ELSE MaxPipeline
      [] class = "bindings" -> MaxBindings
      [] class = "imports" -> MaxImports
      [] class = "styles" -> MaxStyles

\* An engine that answers a repeated query with the handle it issued before.
ReturnsIn_again(nh, iss, r, class) ==
    {INVALID} \cup (IF iss[class] < Limit(class) THEN {nh[r], nh[r] - 1} ELSE {})

\* What an entry point that returns a handle of the given class may return on
\* runtime r: the sentinel, or the next free entry of r's table.
ReturnsIn(nh, iss, r, class) ==
    {INVALID} \cup (IF iss[class] < Limit(class) THEN {nh[r]} ELSE {})

EngineReturns(r) == ReturnsIn(nextH, issued, r, "wrapped")

IssuedCount(iss, h, class) == IF h = INVALID THEN iss ELSE [iss EXCEPT ![class] = @ + 1]

\* The handle table after the engine issued h (h # 0) of kind k on r.
IssuedNext(nh, r, h) == IF h = INVALID THEN nh ELSE [nh EXCEPT ![r] = h + 1]
IssuedLive(lv, r, h) == IF h = INVALID THEN lv ELSE [lv EXCEPT ![r] = @ \cup {h}]
IssuedKind(kd, r, h, k) == IF h = INVALID THEN kd ELSE [kd EXCEPT ![r][h] = k]

\* hermes_handle_free on the engine side: the entry leaves the table; a no-op
\* on an invalid handle.
FreedLive(lv, r, h) == [lv EXCEPT ![r] = @ \ {h}]
FreedKind(kd, r, h) == [kd EXCEPT ![r][h] = "none"]

\* ---------------------------------------------------------------- Handle
None == [some |-> FALSE, rt |-> NULL, raw |-> INVALID]
Some(r, h) == [some |-> TRUE, rt |-> r, raw |-> h]

\* Handle::new with the zero check left out.
Handle_new_unchecked(raw, r) == Some(r, raw)

\* Handle::new: None for the sentinel, a wrapper over raw otherwise.
Handle_new(raw, r) == IF raw = INVALID THEN None ELSE Some(r, raw)

\* Wrappers after a Handle::new result is kept by a typed view.
Wrapped(w, opt) ==
    IF opt.some THEN [w EXCEPT ![opt.rt][opt.raw] = @ + 1] ELSE w

\* Drop for Handle with the release sent to another runtime's table.
Handle_drop_calls_elsewhere(r, h) == << <<(r % 2) + 1, h>> >>

\* Drop for Handle that also releases the handle issued after its own (a
\* value derived from it).
Handle_drop_calls_with_derived(r, h) == << <<r, h>>, <<r, h + 1>> >>

\* Drop for Handle that releases nothing.
Handle_drop_calls_none(r, h) == << >>

\* Drop for Handle that releases twice.
Handle_drop_calls_twice(r, h) == << <<r, h>>, <<r, h>> >>

\* Drop for Handle: the hermes_handle_free(runtime, raw) calls it issues.
Handle_drop_calls(r, h) == << <<r, h>> >>

\* The release calls counted, and the handle table after them.
RECURSIVE FreeCounted(_, _)
FreeCounted(fc, calls) ==
    IF calls = << >> THEN fc
    ELSE FreeCounted([fc EXCEPT ![Head(calls)[1]][Head(calls)[2]] = @ + 1], Tail(calls))

RECURSIVE FreedAll(_, _)
FreedAll(lv, calls) ==
    IF calls = << >> THEN lv
    ELSE FreedAll(FreedLive(lv, Head(calls)[1], Head(calls)[2]), Tail(calls))

RECURSIVE FreedAllKind(_, _)
FreedAllKind(kd, calls) ==
    IF calls = << >> THEN kd
    ELSE FreedAllKind(FreedKind(kd, Head(calls)[1], Head(calls)[2]), Tail(calls))

CallTargets(calls) == {calls[i][1] : i \in DOMAIN calls}

\* ---------------------------------------------------------- borrow rules
\* No lifetime ties a wrapper to its Compiler.
Borrowed_untracked(r) == FALSE

\* Handle<'c> holds &'c Compiler: while a wrapper is alive the Compiler is
\* borrowed and can be neither dropped nor moved.
Borrowed(r) == \E h \in Hnd : wrappers[r][h] > 0

\* An accessor that returns a string of unbounded lifetime.
ViewBorrows_unbounded(r, h) == FALSE

\* fn content(&self) -> &str: the string borrows the wrapper it came from.
ViewBorrows(r, h) == <<r, h>> \in views

\* A Compiler that can be copied: a copy outlives the drop of the original.
CompilerUsable_copied(r) == comp[r] # "none"

\* Compiler is owned (no Clone): it is usable until it is dropped.
CompilerUsable(r) == comp[r] = "live"

\* Compiler shared between threads (Sync).
CanCall_shared(t, r) == TRUE

\* Compiler is Send and not Sync: only the thread that owns it reaches it,
\* and a wrapper (it holds &Compiler) stays on that thread.
CanCall(t, r) == owner[r] = t

Idle(t) == busy[t] = {}

\* A live wrapper of type k over (r, h), held by thread t.
Holds(t, r, h, k) ==
    /\ h # INVALID
    /\ wrappers[r][h] > 0
    /\ kind[r][h] = k
    /\ CanCall(t, r)
    /\ Idle(t)

\* -------------------------------------------------- what every call does
\* One engine call: the entry point, the runtime it targets, the handle or
\* index it is given and what the engine answers (a handle, a count, 0 or 1).
Call(fn, r, arg, ans) == <<fn, r, arg, ans>>

Bit(b) == IF b THEN 1 ELSE 0

\* A drop whose release never reaches the engine.
FreeTrace_none(calls) == << >>

\* The hermes_handle_free calls of a drop, as engine calls.
FreeTrace(calls) ==
    [i \in DOMAIN calls |-> Call("hermes_handle_free", calls[i][1], calls[i][2], 0)]

\* Thread t issues an engine call that targets runtime r.
CallFx(t, r, tr) ==
    /\ busy' = [busy EXCEPT ![t] = {r}]
    /\ lateCall' = (lateCall \/ rtState[r] = "destroyed")
    /\ trace' = tr

Used(rs, r) == [rs EXCEPT ![r] = IF @ = "created" THEN "inuse" ELSE @]

\* ------------------------------------------------------------------- Init
\* No engine call was issued yet: no runtime, no handle, no wrapper.
NothingYet ==
    /\ rtState = [r \in RtPtr |-> "none"]
    /\ nextH = [r \in RtPtr |-> 1]
    /\ issued = [c \in {"wrapped", "bindings", "imports", "styles"} |-> 0]
    /\ live = [r \in RtPtr |-> {}]
    /\ kind = [r \in RtPtr |-> [h \in Hnd |-> "none"]]
    /\ comp = [r \in RtPtr |-> "none"]
    /\ owner = [r \in RtPtr |-> NoThread]
    /\ wrappers = [r \in RtPtr |-> [h \in Hnd |-> 0]]
    /\ views = {}
    /\ iter = NoIter
    /\ busy = [t \in AllThreads |-> {}]
    /\ built = [r \in RtPtr |-> [h \in Hnd |-> 0]]
    /\ freeCalls = [r \in RtPtr |-> [h \in Hnd |-> 0]]
    /\ destroyCalls = [r \in RtPtr |-> 0]
    /\ lateCall = FALSE
    /\ foreign = FALSE
    /\ staleRead = FALSE
    /\ panicked = FALSE
    /\ newFailed = FALSE
    /\ trace = << >>
    /\ yielded = "-"
    /\ pc = "-"

\* The arguments of the handle-based generation are drawn by its actions.
Init == NothingYet /\ input = "-"

\* --------------------------------------------------------------- Compiler
\* hermes_runtime_create: NULL, or a runtime the engine has not created yet.
RuntimeCreateReturns ==
    {NULL} \cup {r \in Rt : rtState[r] = "none" /\ \A q \in Rt : q < r => rtState[q] # "none"}

\* Error::new("Failed to create compiler instance")
ErrNew == "Err: Failed to create compiler instance"

\* Compiler::new with the null check left out.
Compiler_new_result_unchecked(runtime) == "Ok"

\* Compiler::new: Err for a null runtime, Ok(Compiler) otherwise.
Compiler_new_result(runtime) ==
    IF runtime = NULL THEN ErrNew ELSE "Ok"

Compiler_new(t) ==
    /\ Idle(t)
    /\ \E runtime \in RuntimeCreateReturns :
         LET res == Compiler_new_result(runtime) IN
         /\ rtState' = IF runtime = NULL THEN rtState
                       ELSE [rtState EXCEPT ![runtime] = "created"]
         /\ comp' = IF res = "Ok" THEN [comp EXCEPT ![runtime] = "live"] ELSE comp
         /\ owner' = IF res = "Ok" THEN [owner EXCEPT ![runtime] = t] ELSE owner
         /\ newFailed' = (newFailed \/ res # "Ok")
         /\ trace' = << Call("hermes_runtime_create", runtime, 0, 0) >>
         /\ yielded' = res
    /\ UNCHANGED <<nextH, issued, live, kind, wrappers, views, iter, busy, built,
                   freeCalls, destroyCalls, lateCall, foreign, staleRead, panicked, pc, input>>

\* Drop for Compiler with the destroy call left out.
Compiler_drop_calls_none(r) == 0

\* Drop for Compiler: the hermes_runtime_destroy calls it issues.
Compiler_drop_calls(r) == 1

\* Drop for Compiler: hermes_runtime_destroy(self.runtime).  The engine frees
\* the whole handle table of the runtime; destroy of NULL is a no-op.
Compiler_drop(t, r) ==
    /\ CompilerUsable(r)
    /\ CanCall(t, r)
    /\ Idle(t)
    /\ ~Borrowed(r)
    /\ comp' = [comp EXCEPT ![r] = "dropped"]
    /\ destroyCalls' = [destroyCalls EXCEPT ![r] = @ + Compiler_drop_calls(r)]
    /\ rtState' = IF Compiler_drop_calls(r) > 0 /\ r # NULL
                  THEN [rtState EXCEPT ![r] = "destroyed"] ELSE rtState
    /\ live' = IF Compiler_drop_calls(r) > 0 THEN [live EXCEPT ![r] = {}] ELSE live
    /\ kind' = IF Compiler_drop_calls(r) > 0
               THEN [kind EXCEPT ![r] = [h \in Hnd |-> "none"]] ELSE kind
    /\ lateCall' = (lateCall \/ (Compiler_drop_calls(r) > 0 /\ rtState[r] = "destroyed"))
    /\ busy' = [busy EXCEPT ![t] = {r}]
    /\ trace' = [i \in 1..Compiler_drop_calls(r) |-> Call("hermes_runtime_destroy", r, 0, 0)]
    /\ yielded' = "-"
    /\ UNCHANGED <<nextH, issued, owner, wrappers, views, iter, built, freeCalls, foreign,
                   staleRead, panicked, newFailed, pc, input>>

\* A Compiler moved while wrappers borrow it.
Compiler_send_borrowed(t, r, t2) ==
    /\ CompilerUsable(r)
    /\ owner[r] = t
    /\ Idle(t)
    /\ t2 # t
    /\ owner' = [owner EXCEPT ![r] = t2]
    /\ yielded' = "-"
    /\ UNCHANGED <<engineVars, comp, wrappers, views, iter, busy, built, freeCalls,
                   destroyCalls, ghostFlags, trace, pc, input>>

\* A runtime whose handle table stays with the thread that created it: the
\* moved Compiler starts from an empty table.
Compiler_send_rebound(t, r, t2) ==
    /\ CompilerUsable(r)
    /\ owner[r] = t
    /\ Idle(t)
    /\ t2 # t
    /\ ~Borrowed(r)
    /\ owner' = [owner EXCEPT ![r] = t2]
    /\ nextH' = [nextH EXCEPT ![r] = 1]
    /\ live' = [live EXCEPT ![r] = {}]
    /\ yielded' = "-"
    /\ UNCHANGED <<rtState, issued, kind, comp, wrappers, views, iter, busy, built,
                   freeCalls, destroyCalls, ghostFlags, trace, pc, input>>

\* Moving the Compiler to another thread (Compiler: Send).  A borrowed value
\* cannot be moved.
Compiler_send(t, r, t2) ==
    /\ CompilerUsable(r)
    /\ owner[r] = t
    /\ Idle(t)
    /\ t2 # t
    /\ ~Borrowed(r)
    /\ owner' = [owner EXCEPT ![r] = t2]
    /\ yielded' = "-"
    /\ UNCHANGED <<engineVars, comp, wrappers, views, iter, busy, built, freeCalls,
                   destroyCalls, ghostFlags, trace, pc, input>>

\* HermesHandle::is_valid
is_valid(h) == h # INVALID

\* The engine call of an operation on runtime r by thread t returned raw, an
\* object of kind k, and the layer kept the Handle::new result opt of it.
Fetched(t, r, raw, k, opt, out, tr) ==
    /\ nextH' = IssuedNext(nextH, r, raw)
    /\ issued' = IssuedCount(issued, raw, "wrapped")
    /\ live' = IssuedLive(live, r, raw)
    /\ kind' = IssuedKind(kind, r, raw, k)
    /\ wrappers' = Wrapped(wrappers, opt)
    /\ built' = Wrapped(built, opt)
    /\ rtState' = Used(rtState, r)
    /\ CallFx(t, r, tr)
    /\ yielded' = out

\* from_raw reached without the is_valid check before it.
Checked_from_raw_unchecked(t, r, raw, k, err, fn) ==
    LET opt == Handle_new(raw, r) IN
    /\ Fetched(t, r, raw, k, opt, IF opt.some THEN "Ok" ELSE "panic",
               << Call(fn, r, 0, raw) >>)
    /\ panicked' = (panicked \/ ~opt.some)

\* An operation that checks is_valid before from_raw: Err for the sentinel,
\* otherwise T::from_raw, which is Handle::new(..).expect("Invalid handle").
Checked_from_raw(t, r, raw, k, err, fn) ==
    IF ~is_valid(raw)
    THEN /\ Fetched(t, r, raw, k, None, err, << Call(fn, r, 0, raw) >>)
         /\ UNCHANGED panicked
    ELSE LET opt == Handle_new(raw, r) IN
         /\ Fetched(t, r, raw, k, opt, IF opt.some THEN "Ok" ELSE "panic",
                    << Call(fn, r, 0, raw) >>)
         /\ panicked' = (panicked \/ ~opt.some)

ErrParse == "Err: Parse returned invalid handle"

\* Compiler::parse
Compiler_parse(t, r) ==
    /\ CompilerUsable(r) /\ CanCall(t, r) /\ Idle(t)
    /\ \E raw \in EngineReturns(r) :
         Checked_from_raw(t, r, raw, "ParseOutput", ErrParse, "vue_parse")
    /\ UNCHANGED <<comp, owner, views, iter, freeCalls, destroyCalls,
                   foreign, staleRead, newFailed, pc, input>>

ErrCompileStyle == "Err: compile_style returned invalid handle"

\* Compiler::compile_style
Compiler_compile_style(t, r) ==
    /\ CompilerUsable(r) /\ CanCall(t, r) /\ Idle(t)
    /\ \E raw \in EngineReturns(r) :
         Checked_from_raw(t, r, raw, "StyleOutput", ErrCompileStyle, "vue_compile_style")
    /\ UNCHANGED <<comp, owner, views, iter, freeCalls, destroyCalls,
                   foreign, staleRead, newFailed, pc, input>>

\* Handle::new's Option unwrapped instead of mapped.
Mapped_new_unwrapped(t, r, raw, k, some, none, tr) ==
    LET opt == Handle_new(raw, r) IN
    /\ Fetched(t, r, raw, k, opt, IF opt.some THEN some ELSE "panic", tr)
    /\ panicked' = (panicked \/ ~opt.some)

\* An operation that maps Handle::new's Option: ParseOutput::descriptor,
\* Descriptor::template/script/script_setup (Some/None), and
\* Descriptor::compile_script (ok_or_else: Ok/Err).
Mapped_new(t, r, raw, k, some, none, tr) ==
    LET opt == Handle_new(raw, r) IN
    /\ Fetched(t, r, raw, k, opt, IF opt.some THEN some ELSE none, tr)
    /\ UNCHANGED panicked

\* ParseOutput::descriptor
ParseOutput_descriptor(t, r, h) ==
    /\ Holds(t, r, h, "ParseOutput")
    /\ \E raw \in EngineReturns(r) :
         Mapped_new(t, r, raw, "Descriptor", "Some", "None",
                    << Call("vue_parse_result_descriptor", r, h, raw) >>)
    /\ UNCHANGED <<comp, owner, views, iter, freeCalls, destroyCalls,
                   foreign, staleRead, newFailed, pc, input>>

\* Descriptor::template, script, script_setup with the has-flag ignored.
Descriptor_block_unguarded(t, r, h, k, hasFn, getFn) ==
    /\ Holds(t, r, h, "Descriptor")
    /\ \E has \in BOOLEAN :
         \E raw \in (IF has THEN EngineReturns(r) ELSE {INVALID}) :
           Mapped_new(t, r, raw, k, "Some", "None",
                      << Call(hasFn, r, h, Bit(has)), Call(getFn, r, h, raw) >>)
    /\ UNCHANGED <<comp, owner, views, iter, freeCalls, destroyCalls,
                   foreign, staleRead, newFailed, pc, input>>

\* Descriptor::template, script, script_setup: None without a fetch when the
\* has-flag is false, else the fetch and Handle::new.
Descriptor_block(t, r, h, k, hasFn, getFn) ==
    /\ Holds(t, r, h, "Descriptor")
    /\ \E has \in BOOLEAN :
         IF ~has
         THEN /\ Fetched(t, r, INVALID, k, None, "None",
                         << Call(hasFn, r, h, Bit(has)) >>)
              /\ UNCHANGED panicked
         ELSE \E raw \in EngineReturns(r) :
                Mapped_new(t, r, raw, k, "Some", "None",
                           << Call(hasFn, r, h, Bit(has)), Call(getFn, r, h, raw) >>)
    /\ UNCHANGED <<comp, owner, views, iter, freeCalls, destroyCalls,
                   foreign, staleRead, newFailed, pc, input>>

Descriptor_template(t, r, h) ==
    Descriptor_block(t, r, h, "TemplateBlock",
                     "vue_descriptor_has_template", "vue_descriptor_template")

Descriptor_script(t, r, h) ==
    Descriptor_block(t, r, h, "ScriptBlock",
                     "vue_descriptor_has_script", "vue_descriptor_script")

Descriptor_script_setup(t, r, h) ==
    Descriptor_block(t, r, h, "ScriptBlock",
                     "vue_descriptor_has_script_setup", "vue_descriptor_script_setup")

ErrCompileScript == "Err: compile_script returned invalid handle"

\* Descriptor::compile_script
Descriptor_compile_script(t, r, h) ==
    /\ Holds(t, r, h, "Descriptor")
    /\ \E raw \in EngineReturns(r) :
         Mapped_new(t, r, raw, "ScriptOutput", "Ok", ErrCompileScript,
                    << Call("vue_compile_script", r, h, raw) >>)
    /\ UNCHANGED <<comp, owner, views, iter, freeCalls, destroyCalls,
                   foreign, staleRead, newFailed, pc, input>>

ErrCompileTemplate == "Err: compile_template returned invalid handle"

\* A bindings argument passed as a bare handle, with no borrow of its owner.
Lent_unchecked(t, bindings) ==
    bindings.some =>
      /\ bindings.raw # INVALID
      /\ built[bindings.rt][bindings.raw] > 0
      /\ CanCall(t, bindings.rt)

\* bindings: Option<&ScriptOutput<'c>>: the argument borrows a ScriptOutput,
\* which is therefore alive (not dropped) for the whole call.
Lent(t, bindings) ==
    bindings.some =>
      /\ bindings.raw # INVALID
      /\ wrappers[bindings.rt][bindings.raw] > 0
      /\ kind[bindings.rt][bindings.raw] = "ScriptOutput"
      /\ CanCall(t, bindings.rt)

\* A bindings argument that is never forwarded: 0 whatever the query answered.
BindingsArg_dropped(bindings, bh) == INVALID

\* bindings.map(|b| b.bindings_handle()).unwrap_or(HermesHandle::INVALID): the
\* answer bh of the bindings query for Some(script), the sentinel for None.
BindingsArg(bindings, bh) == IF bindings.some THEN bh ELSE INVALID

\* ScriptOutput::bindings_handle, called for Some(script) only.
BindingsQuery(bindings, bh) ==
    IF bindings.some
    THEN << Call("vue_script_result_bindings", bindings.rt, bindings.raw, bh) >>
    ELSE << >>

\* Compiler::compile_template.  With Some(script) the bindings handle is
\* queried on the runtime of the ScriptOutput's own Compiler (script.0.compiler())
\* and passed to vue_compile_template on self.runtime; the layer never frees it.
Compiler_compile_template(t, r, bindings) ==
    /\ CompilerUsable(r) /\ CanCall(t, r) /\ Idle(t)
    /\ Lent(t, bindings)
    /\ \E bh \in (IF bindings.some
                  THEN ReturnsIn(nextH, issued, bindings.rt, "bindings")
                  ELSE {INVALID}) :
         LET r2  == bindings.rt
             nh1 == IssuedNext(nextH, r2, bh)
             lv1 == IssuedLive(live, r2, bh)
             kd1 == IssuedKind(kind, r2, bh, "Bindings")
         IN
         \E raw \in ReturnsIn(nh1, issued, r, "wrapped") :
           LET opt == IF is_valid(raw) THEN Handle_new(raw, r) ELSE None IN
           /\ nextH' = IssuedNext(nh1, r, raw)
           /\ issued' = IssuedCount(IssuedCount(issued, bh, "bindings"), raw, "wrapped")
           /\ live' = IssuedLive(lv1, r, raw)
           /\ kind' = IssuedKind(kd1, r, raw, "TemplateOutput")
           /\ wrappers' = Wrapped(wrappers, opt)
           /\ built' = Wrapped(built, opt)
           /\ panicked' = (panicked \/ (is_valid(raw) /\ ~opt.some))
           /\ yielded' = IF ~is_valid(raw) THEN ErrCompileTemplate
                      ELSE IF opt.some THEN "Ok" ELSE "panic"
           /\ trace' = BindingsQuery(bindings, bh)
                        \o << Call("vue_compile_template", r, BindingsArg(bindings, bh), raw) >>
           /\ foreign' = (foreign \/ (bh # INVALID /\ r2 # r))
           /\ rtState' = Used(IF bindings.some THEN Used(rtState, r2) ELSE rtState, r)
           /\ lateCall' = (lateCall \/ rtState[r] = "destroyed"
                                    \/ (bindings.some /\ rtState[r2] = "destroyed"))
           /\ busy' = [busy EXCEPT ![t] = IF bindings.some THEN {r, r2} ELSE {r}]
    /\ UNCHANGED <<comp, owner, views, iter, freeCalls, destroyCalls,
                   staleRead, newFailed, pc, input>>

\* Drop for Handle: one hermes_handle_free with the wrapper's runtime and raw.
\* A wrapper a string or an iterator borrows cannot be dropped.
Handle_drop(t, r, h) ==
    /\ wrappers[r][h] > 0
    /\ CanCall(t, r) /\ Idle(t)
    /\ ~ViewBorrows(r, h)
    /\ ~(iter.rt = r /\ iter.raw = h)
    /\ LET calls == Handle_drop_calls(r, h) IN
       /\ wrappers' = [wrappers EXCEPT ![r][h] = @ - 1]
       /\ freeCalls' = FreeCounted(freeCalls, calls)
       /\ live' = FreedAll(live, calls)
       /\ kind' = FreedAllKind(kind, calls)
       /\ lateCall' = (lateCall \/ \E q \in CallTargets(calls) : rtState[q] = "destroyed")
       /\ rtState' = [q \in RtPtr |-> IF q \in CallTargets(calls) /\ rtState[q] = "created"
                                      THEN "inuse" ELSE rtState[q]]
       /\ foreign' = (foreign \/ \E q \in CallTargets(calls) : q # r)
       /\ busy' = [busy EXCEPT ![t] = CallTargets(calls)]
       /\ trace' = FreeTrace(calls)
    /\ yielded' = "-"
    /\ UNCHANGED <<nextH, issued, comp, owner, views, iter, built, destroyCalls,
                   staleRead, panicked, newFailed, pc, input>>

\* has_errors that looks at the error count alone.
ParseOutput_has_errors_result_count_only(count, descriptor) ==
    IF count > 0 THEN "true" ELSE "false"

\* self.error_count() > 0 || self.descriptor().is_none()
ParseOutput_has_errors_result(count, descriptor) ==
    IF count > 0 \/ ~descriptor.some THEN "true" ELSE "false"

\* ParseOutput::has_errors: error_count() > 0 || descriptor().is_none().  The
\* Descriptor it fetches is a temporary, dropped before the call returns.
ParseOutput_has_errors(t, r, h) ==
    /\ Holds(t, r, h, "ParseOutput")
    /\ \E count \in 0..MaxErrors :
         IF count > 0
         THEN /\ yielded' = ParseOutput_has_errors_result(count, None)
              /\ CallFx(t, r, << Call("vue_parse_result_error_count", r, h, count) >>)
              /\ UNCHANGED <<nextH, issued, live, kind, built, freeCalls>>
         ELSE \E raw \in EngineReturns(r) :
                LET opt   == Handle_new(raw, r)
                    calls == IF opt.some THEN Handle_drop_calls(opt.rt, opt.raw) ELSE << >>
                IN
                /\ nextH' = IssuedNext(nextH, r, raw)
                /\ issued' = IssuedCount(issued, raw, "wrapped")
                /\ kind' = FreedAllKind(IssuedKind(kind, r, raw, "Descriptor"), calls)
                /\ live' = FreedAll(IssuedLive(live, r, raw), calls)
                /\ built' = Wrapped(built, opt)
                /\ freeCalls' = FreeCounted(freeCalls, calls)
                /\ yielded' = ParseOutput_has_errors_result(count, opt)
                /\ CallFx(t, r, << Call("vue_parse_result_error_count", r, h, count),
                                   Call("vue_parse_result_descriptor", r, h, raw) >>
                                \o FreeTrace(calls))
    /\ rtState' = Used(rtState, r)
    /\ UNCHANGED <<comp, owner, wrappers, views, iter, destroyCalls,
                   foreign, staleRead, panicked, newFailed, pc, input>>

\* ------------------------------------------------- strings and maps
\* What an entry point returning *const c_char may hand back: a null pointer,
\* bytes that are not UTF-8, or a UTF-8 string (possibly empty).
NullPtr == <<"null", "">>
BadUtf8 == <<"bytes", "">>
CStr(text) == <<"utf8", text>>

\* ptr_to_str: "" for a null pointer and for bytes that are not UTF-8
\* (to_str().unwrap_or("")), the text otherwise.
ptr_to_str(ptr) ==
    IF ptr = NullPtr THEN ""
    ELSE IF ptr[1] = "utf8" THEN ptr[2] ELSE ""

\* An insert that keeps the entry already present (entry().or_insert()).
HashMap_insert_keep_first(map, key, value) ==
    [k \in DOMAIN map \cup {key} |-> IF k \in DOMAIN map THEN map[k] ELSE value]

\* HashMap::insert: the new value replaces the one under the same key.
HashMap_insert(map, key, value) ==
    [k \in DOMAIN map \cup {key} |-> IF k = key THEN value ELSE map[k]]

\* The imports the engine reports in the model: the local name and the four
\* fields of the import binding.
ImportEntries ==
    [key : {CStr("ref"), CStr("h")}, is_type : BOOLEAN, imported : {CStr("ref")},
     source : {CStr("vue")}, is_from_setup : BOOLEAN]

\* The import of the scenario `import { ref } from 'vue'`.
ImportOfRef ==
    [key |-> CStr("ref"), is_type |-> FALSE, imported |-> CStr("ref"),
     source |-> CStr("vue"), is_from_setup |-> TRUE]

\* An ImportBinding whose imported name and origin module are exchanged.
ImportBinding_swapped(e) ==
    [is_type |-> e.is_type, imported |-> ptr_to_str(e.source),
     source |-> ptr_to_str(e.imported), is_from_setup |-> e.is_from_setup]

\* ImportBinding { is_type, imported, source, is_from_setup }, the two strings
\* copied through ptr_to_str.
ImportBinding(e) ==
    [is_type |-> e.is_type, imported |-> ptr_to_str(e.imported),
     source |-> ptr_to_str(e.source), is_from_setup |-> e.is_from_setup]

\* imports() that releases the handle issued before the one it fetched.
ImportEntryCalls_other(r, hv, e) ==
    IF is_valid(hv)
    THEN << Call("vue_import_binding_is_type", r, hv, Bit(e.is_type)),
            Call("vue_import_binding_imported", r, hv, e.imported),
            Call("vue_import_binding_source", r, hv, e.source),
            Call("vue_import_binding_is_from_setup", r, hv, Bit(e.is_from_setup)),
            Call("hermes_handle_free", r, hv - 1, 0) >>
    ELSE << >>

\* imports() that keeps the secondary handle: the release is left out.
ImportEntryCalls_unreleased(r, hv, e) ==
    IF is_valid(hv)
    THEN << Call("vue_import_binding_is_type", r, hv, Bit(e.is_type)),
            Call("vue_import_binding_imported", r, hv, e.imported),
            Call("vue_import_binding_source", r, hv, e.source),
            Call("vue_import_binding_is_from_setup", r, hv, Bit(e.is_from_setup)) >>
    ELSE << >>

\* The body of `if handle.is_valid() { .. }` in imports(): the four fields
\* of the import e are read, then hermes_handle_free(rt, handle).
ImportEntryCalls(r, hv, e) ==
    IF is_valid(hv)
    THEN << Call("vue_import_binding_is_type", r, hv, Bit(e.is_type)),
            Call("vue_import_binding_imported", r, hv, e.imported),
            Call("vue_import_binding_source", r, hv, e.source),
            Call("vue_import_binding_is_from_setup", r, hv, Bit(e.is_from_setup)),
            Call("hermes_handle_free", r, hv, 0) >>
    ELSE << >>

\* The loop `for i in 0..count` of imports(), from index i on, over the
\* imports tab the engine holds: the key, the secondary handle (valid at the
\* indices in V, the next fresh handle nh) and the body.
RECURSIVE ImportsCalls(_, _, _, _, _, _)
ImportsCalls(r, tab, i, count, V, nh) ==
    IF i >= count THEN << >>
    ELSE LET hv == IF i \in V THEN nh ELSE INVALID IN
         << Call("vue_script_imports_key_at", r, i, tab[i].key),
            Call("vue_script_imports_value_at", r, i, hv) >>
         \o ImportEntryCalls(r, hv, tab[i])
         \o ImportsCalls(r, tab, i + 1, count, V, IF i \in V THEN nh + 1 ELSE nh)

\* The map the loop builds: imports.insert(key, binding) at the indices whose
\* handle is valid.
RECURSIVE ImportsMap(_, _, _, _, _)
ImportsMap(tab, i, count, V, map) ==
    IF i >= count THEN map
    ELSE ImportsMap(tab, i + 1, count, V,
                    IF i \in V
                    THEN HashMap_insert(map, ptr_to_str(tab[i].key), ImportBinding(tab[i]))
                    ELSE map)

\* The releases among engine calls, as <<runtime, handle>>.
FreesIn(tr) ==
    LET idx == {i \in DOMAIN tr : tr[i][1] = "hermes_handle_free"} IN
    [n \in 1..Cardinality(idx) |->
       LET i == CHOOSE x \in idx : Cardinality({y \in idx : y < x}) = n - 1
       IN <<tr[i][2], tr[i][3]>>]

\* ScriptBlock::imports over imports drawn from Entries: the count, then per
\* index the key, the secondary handle and, when it is valid, its four fields,
\* the insert and its release.  The caller keeps the map it is returned
\* (kept) or drops it unread.
ScriptBlock_imports_of(t, r, h, Entries, kept) ==
    /\ Holds(t, r, h, "ScriptBlock")
    /\ \E count \in 0..MaxImports :
       \E V \in SUBSET (0..(count - 1)) :
       \E tab \in [0..(count - 1) -> Entries] :
         /\ issued["imports"] + Cardinality(V) <= MaxImports
         /\ LET tr == << Call("vue_script_imports_count", r, h, count) >>
                      \o ImportsCalls(r, tab, 0, count, V, nextH[r])
                hs == {x \in Hnd : nextH[r] <= x /\ x < nextH[r] + Cardinality(V)}
            IN
            /\ nextH' = [nextH EXCEPT ![r] = @ + Cardinality(V)]
            /\ issued' = [issued EXCEPT !["imports"] = @ + Cardinality(V)]
            /\ freeCalls' = FreeCounted(freeCalls, FreesIn(tr))
            /\ live' = [live EXCEPT ![r] = @ \cup {x \in hs : \A c \in DOMAIN tr :
                                                    tr[c] # Call("hermes_handle_free", r, x, 0)}]
            /\ kind' = [kind EXCEPT ![r] = [x \in Hnd |->
                          IF x \in hs /\ \A c \in DOMAIN tr :
                                           tr[c] # Call("hermes_handle_free", r, x, 0)
                          THEN "ImportBinding" ELSE @[x]]]
            /\ CallFx(t, r, tr)
         /\ yielded' = IF kept THEN ImportsMap(tab, 0, count, V, << >>) ELSE "-"
    /\ rtState' = Used(rtState, r)
    /\ UNCHANGED <<comp, owner, wrappers, views, iter, built, destroyCalls,
                   foreign, staleRead, panicked, newFailed, pc, input>>

\* ScriptBlock::imports of a script whose imports are all `ref` from 'vue',
\* the map dropped unread.
ScriptBlock_imports(t, r, h) == ScriptBlock_imports_of(t, r, h, {ImportOfRef}, FALSE)

\* The count query and the per-index fetch behind styles() and custom_blocks().
CountFn(k) ==
    IF k = "StyleBlock" THEN "vue_descriptor_style_count"
    ELSE "vue_descriptor_custom_blocks_count"

AtFn(k) ==
    IF k = "StyleBlock" THEN "vue_descriptor_style_at"
    ELSE "vue_descriptor_custom_block_at"

\* Descriptor::styles and custom_blocks: the count is queried, the iterator
\* borrows the Descriptor and fetches nothing yet.
Descriptor_blocks_iter(t, r, h, k) ==
    /\ Holds(t, r, h, "Descriptor")
    /\ iter = NoIter
    /\ \E count \in 0..MaxBlocks :
         /\ iter' = [rt |-> r, raw |-> h, of |-> k, idx |-> 0, count |-> count]
         /\ CallFx(t, r, << Call(CountFn(k), r, h, count) >>)
    /\ rtState' = Used(rtState, r)
    /\ yielded' = "-"
    /\ UNCHANGED <<nextH, issued, live, kind, comp, owner, wrappers, views, built,
                   freeCalls, destroyCalls, foreign, staleRead, panicked, newFailed, pc, input>>

Descriptor_styles(t, r, h) == Descriptor_blocks_iter(t, r, h, "StyleBlock")

Descriptor_custom_blocks(t, r, h) == Descriptor_blocks_iter(t, r, h, "CustomBlock")

\* An iterator that starts over from index 0 at every next().
Skipped_from_start(it, k) ==
    [n \in 1..k |-> Call(AtFn(it.of), it.rt, n - 1, INVALID)]

\* The fetches of the indices from it.idx up to k that the engine answered with 0.
Skipped(it, k) ==
    [n \in 1..(k - it.idx) |-> Call(AtFn(it.of), it.rt, it.idx + n - 1, INVALID)]

\* Iterator::next of (0..count).filter_map(..): indices whose handle is 0 are
\* skipped; the first valid handle at index k is wrapped and yielded.
Iter_next(t) ==
    /\ iter # NoIter
    /\ iter.of \in {"StyleBlock", "CustomBlock"}
    /\ CanCall(t, iter.rt) /\ Idle(t)
    /\ \E k \in iter.idx..iter.count :
         IF k = iter.count
         THEN /\ iter' = [iter EXCEPT !.idx = iter.count]
              /\ yielded' = "None"
              /\ CallFx(t, iter.rt, Skipped(iter, k))
              /\ UNCHANGED <<nextH, issued, live, kind, wrappers, built>>
         ELSE /\ nextH[iter.rt] \in EngineReturns(iter.rt)
              /\ LET raw == nextH[iter.rt]
                     opt == Handle_new(raw, iter.rt)
                 IN
                 /\ nextH' = IssuedNext(nextH, iter.rt, raw)
                 /\ issued' = IssuedCount(issued, raw, "wrapped")
                 /\ live' = IssuedLive(live, iter.rt, raw)
                 /\ kind' = IssuedKind(kind, iter.rt, raw, iter.of)
                 /\ wrappers' = Wrapped(wrappers, opt)
                 /\ built' = Wrapped(built, opt)
                 /\ CallFx(t, iter.rt,
                           Skipped(iter, k) \o << Call(AtFn(iter.of), iter.rt, k, raw) >>)
              /\ iter' = [iter EXCEPT !.idx = k + 1]
              /\ yielded' = "Some"
    /\ rtState' = Used(rtState, iter.rt)
    /\ UNCHANGED <<comp, owner, views, freeCalls, destroyCalls,
                   foreign, staleRead, panicked, newFailed, pc, input>>

\* An iteration that looks at every block, whatever the answers.
StyleStops_never(hv, scoped) == FALSE

\* An iteration that ends at the first index without a style block.
StyleStops_at_invalid(hv, scoped) == ~is_valid(hv) \/ scoped

\* styles().any(|s| s.is_scoped()): filter_map passes over an invalid handle,
\* any() ends the iteration at the first block that reports scoped.
StyleStops(hv, scoped) == is_valid(hv) /\ scoped

\* The closure calls of has_scoped_style() from index i on: the fetch, and for
\* a valid handle the temporary StyleBlock's is_scoped() and its drop.  The
\* engine has a block at the indices in V, scoped at those in S.
RECURSIVE StyleCalls(_, _, _, _, _, _)
StyleCalls(r, i, count, V, S, nh) ==
    IF i >= count THEN << >>
    ELSE LET hv == IF i \in V THEN nh ELSE INVALID IN
         << Call("vue_descriptor_style_at", r, i, hv) >>
         \o (IF is_valid(hv)
             THEN << Call("vue_style_is_scoped", r, hv, Bit(i \in S)) >>
                  \o FreeTrace(Handle_drop_calls(r, hv))
             ELSE << >>)
         \o (IF StyleStops(hv, i \in S) THEN << >>
             ELSE StyleCalls(r, i + 1, count, V, S, IF i \in V THEN nh + 1 ELSE nh))

\* Iterator::any over the is_scoped() answers.
AnyScoped(tr) ==
    IF \E n \in DOMAIN tr : tr[n][1] = "vue_style_is_scoped" /\ tr[n][4] = 1
    THEN "true" ELSE "false"

\* Descriptor::has_scoped_style: the count, then per index the fetch and, for
\* a valid handle, is_scoped() on a temporary StyleBlock that is dropped at
\* the end of the closure.
Descriptor_has_scoped_style(t, r, h) ==
    /\ Holds(t, r, h, "Descriptor")
    /\ \E count \in 0..MaxBlocks :
       \E V \in SUBSET (0..(count - 1)) :
       \E S \in SUBSET V :
         LET tr == << Call("vue_descriptor_style_count", r, h, count) >>
                   \o StyleCalls(r, 0, count, V, S, nextH[r])
             got == {tr[n][4] : n \in {m \in DOMAIN tr :
                                         tr[m][1] = "vue_descriptor_style_at"
                                         /\ is_valid(tr[m][4])}}
             calls == FreesIn(tr)
         IN
         /\ issued["styles"] + Cardinality(got) <= MaxStyles
         /\ nextH' = [nextH EXCEPT ![r] = @ + Cardinality(got)]
         /\ issued' = [issued EXCEPT !["styles"] = @ + Cardinality(got)]
         /\ built' = [built EXCEPT ![r] = [x \in Hnd |-> IF x \in got THEN @[x] + 1 ELSE @[x]]]
         /\ freeCalls' = FreeCounted(freeCalls, calls)
         /\ live' = FreedAll([live EXCEPT ![r] = @ \cup got], calls)
         /\ kind' = FreedAllKind([kind EXCEPT ![r] = [x \in Hnd |->
                                    IF x \in got THEN "StyleBlock" ELSE @[x]]], calls)
         /\ CallFx(t, r, tr)
         /\ yielded' = AnyScoped(tr)
    /\ rtState' = Used(rtState, r)
    /\ UNCHANGED <<comp, owner, wrappers, views, iter, destroyCalls,
                   foreign, staleRead, panicked, newFailed, pc, input>>

\* The iterator goes out of scope: the borrow of the Descriptor ends.
Iter_drop ==
    /\ iter # NoIter
    /\ iter' = NoIter
    /\ UNCHANGED <<engineVars, comp, owner, wrappers, views, busy, built, freeCalls,
                   destroyCalls, ghostFlags, trace, yielded, pc, input>>

\* A string accessor that hands out a copy kept by the wrapper: the engine
\* is not asked.
String_accessor_cached(t, r, h) ==
    /\ h # INVALID /\ wrappers[r][h] > 0
    /\ CanCall(t, r) /\ Idle(t)
    /\ Cardinality(views) < MaxViews
    /\ views' = views \cup {<<r, h>>}
    /\ yielded' = "-"
    /\ UNCHANGED <<engineVars, comp, owner, wrappers, iter, busy, built, freeCalls,
                   destroyCalls, ghostFlags, trace, pc, input>>

\* A string accessor (content, lang, src, code, error_message, source,
\* filename, block_type, setup_value, module_name): fn(&self) -> &str.
String_accessor(t, r, h) ==
    /\ h # INVALID /\ wrappers[r][h] > 0
    /\ CanCall(t, r) /\ Idle(t)
    /\ Cardinality(views) < MaxViews
    /\ views' = views \cup {<<r, h>>}
    /\ rtState' = Used(rtState, r)
    /\ CallFx(t, r, << Call("vue_block_content", r, h, 0) >>)
    /\ yielded' = "-"
    /\ UNCHANGED <<nextH, issued, live, kind, comp, owner, wrappers, iter, built,
                   freeCalls, destroyCalls, foreign, staleRead, panicked, newFailed, pc, input>>

\* The caller reads a borrowed string.
View_read(r, h) ==
    /\ <<r, h>> \in views
    /\ staleRead' = (staleRead \/ h \notin live[r])
    /\ yielded' = "str"
    /\ UNCHANGED <<engineVars, comp, owner, wrappers, views, iter, busy, built,
                   freeCalls, destroyCalls, lateCall, foreign, panicked, newFailed, trace, pc, input>>

\* The borrowed string goes out of scope.
View_release(r, h) ==
    /\ <<r, h>> \in views
    /\ views' = views \ {<<r, h>>}
    /\ UNCHANGED <<engineVars, comp, owner, wrappers, iter, busy, built, freeCalls,
                   destroyCalls, ghostFlags, trace, yielded, pc, input>>

\* Where compile() of the example stands once the call issued at position at
\* has returned result: `?` and ok_or leave on Err and None, `if let` and
\* `for` branch on Some and None.  Outside the example ("-"), and while the
\* locals go out of scope, the position stays.
After(at, result) ==
    CASE at = "parse" -> IF result = "Ok" THEN "descriptor" ELSE "unwind"
      [] at = "descriptor" -> IF result = "Some" THEN "compile_script" ELSE "unwind"
      [] at = "compile_script" -> IF result = "Ok" THEN "template" ELSE "unwind"
      [] at = "template" -> IF result = "Some" THEN "content" ELSE "styles"
      [] at = "content" -> "has_scoped_style"
      [] at = "has_scoped_style" -> "compile_template"
      [] at = "compile_template" -> IF result = "Ok" THEN "code" ELSE "unwind"
      [] at = "code" -> "drop_result"
      [] at = "drop_result" -> "drop_tmpl"
      [] at = "drop_tmpl" -> "styles"
      [] at = "styles" -> "next"
      [] at = "next" -> IF result = "Some" THEN "style_content" ELSE "script_content"
      [] at = "style_content" -> "is_scoped"
      [] at = "is_scoped" -> "compile_style"
      [] at = "compile_style" -> IF result = "Ok" THEN "style_code" ELSE "unwind"
      [] at = "style_code" -> "drop_style_result"
      [] at = "drop_style_result" -> "drop_style"
      [] at = "drop_style" -> "next"
      [] at = "script_content" -> "return"
      [] OTHER -> at

\* A return that first takes a lock an open iterator holds: the call waits
\* until the iterator is gone.
Return_when_unlocked(t) ==
    /\ busy[t] # {}
    /\ iter = NoIter
    /\ busy' = [busy EXCEPT ![t] = {}]
    /\ trace' = << >>
    /\ yielded' = "-"
    /\ pc' = After(pc, yielded)
    /\ UNCHANGED <<engineVars, comp, owner, wrappers, views, iter, built, freeCalls,
                   destroyCalls, ghostFlags, input>>

\* A call in progress on thread t returns.
Return(t) ==
    /\ busy[t] # {}
    /\ busy' = [busy EXCEPT ![t] = {}]
    /\ trace' = << >>
    /\ yielded' = "-"
    /\ pc' = After(pc, yielded)
    /\ UNCHANGED <<engineVars, comp, owner, wrappers, views, iter, built, freeCalls,
                   destroyCalls, ghostFlags, input>>

\* Compilers the client has created so far.
Created == Cardinality({r \in Rt : comp[r] # "none"})

\* The operations on the values a Compiler hands out, issued from the threads T.
ViewOps(T) ==
    \/ \E t \in T, r \in RtPtr, h \in Hnd : Descriptor_template(t, r, h)
    \/ \E t \in T, r \in RtPtr, h \in Hnd : Descriptor_script(t, r, h)
    \/ \E t \in T, r \in RtPtr, h \in Hnd : Descriptor_script_setup(t, r, h)
    \/ \E t \in T, r \in RtPtr, h \in Hnd : ParseOutput_has_errors(t, r, h)
    \/ \E t \in T, r \in RtPtr, h \in Hnd : ScriptBlock_imports(t, r, h)
    \/ \E t \in T, r \in RtPtr, h \in Hnd : Descriptor_styles(t, r, h)
    \/ \E t \in T, r \in RtPtr, h \in Hnd : Descriptor_custom_blocks(t, r, h)
    \/ \E t \in T : Iter_next(t)
    \/ Iter_drop
    \/ \E t \in T, r \in RtPtr, h \in Hnd : String_accessor(t, r, h)
    \/ \E r \in RtPtr, h \in Hnd : View_read(r, h)
    \/ \E r \in RtPtr, h \in Hnd : View_release(r, h)

\* The compile pipeline, issued from the threads T.
PipelineOps(T) ==
    \/ \E t \in T, r \in RtPtr : Compiler_drop(t, r)
    \/ \E t \in T, r \in RtPtr : Compiler_parse(t, r)
    \/ \E t \in T, r \in RtPtr : Compiler_compile_style(t, r)
    \/ \E t \in T, r \in RtPtr, h \in Hnd : ParseOutput_descriptor(t, r, h)
    \/ \E t \in T, r \in RtPtr, h \in Hnd : Descriptor_compile_script(t, r, h)
    \/ \E t \in T, r \in RtPtr : Compiler_compile_template(t, r, None)
    \/ \E t \in T, r \in RtPtr, r2 \in RtPtr, h \in Hnd :
         Compiler_compile_template(t, r, Some(r2, h))
    \/ \E t \in T, r \in RtPtr, h \in Hnd : Handle_drop(t, r, h)
    \/ \E t \in T : Return(t)

\* A client on one thread with one Compiler at its disposal: every operation.
Next ==
    \/ \E t \in {1} : Created < 1 /\ Compiler_new(t)
    \/ PipelineOps({1})
    \/ ViewOps({1})

Spec == Init /\ [][Next]_vars

\* ------------------------------------------------- values read off a block
\* AttrValue
AttrBool(b) == <<"Bool", b>>
AttrString(str) == <<"String", str>>

BlockKinds == {"TemplateBlock", "ScriptBlock", "StyleBlock", "CustomBlock"}

\* The attribute keys and values the engine reports in the model.
AttrKeys == {CStr("scoped"), CStr("lang")}
AttrValues == {CStr("scss"), CStr("css"), NullPtr}

\* The engine calls of one round of the loop in get_block_attrs: the key, the
\* is-bool flag and, when the flag is false, the value.  e is the attribute
\* the engine holds at index i.
AttrCalls(r, i, e) ==
    << Call("vue_block_attrs_key_at", r, i, e.key),
       Call("vue_block_attrs_is_bool_at", r, i, Bit(e.is_bool)) >>
    \o (IF e.is_bool THEN << >>
        ELSE << Call("vue_block_attrs_value_at", r, i, e.value) >>)

\* let value = if is_bool { AttrValue::Bool(true) } else { AttrValue::String(val) }
AttrValueOf(e) ==
    IF e.is_bool THEN AttrBool(TRUE) ELSE AttrString(ptr_to_str(e.value))

\* The calls and the map of `for i in 0..count` in get_block_attrs, from index
\* i on, over the attributes tab the engine holds.
RECURSIVE AttrsCalls(_, _, _, _)
AttrsCalls(r, tab, i, count) ==
    IF i >= count THEN << >>
    ELSE AttrCalls(r, i, tab[i]) \o AttrsCalls(r, tab, i + 1, count)

RECURSIVE AttrsMap(_, _, _, _)
AttrsMap(tab, i, count, map) ==
    IF i >= count THEN map
    ELSE AttrsMap(tab, i + 1, count,
                  HashMap_insert(map, ptr_to_str(tab[i].key), AttrValueOf(tab[i])))

\* attrs() of a block: get_block_attrs(runtime, raw).  The map owns its
\* strings (to_string), so nothing stays borrowed.
Block_attrs(t, r, h) ==
    /\ h # INVALID /\ wrappers[r][h] > 0 /\ kind[r][h] \in BlockKinds
    /\ CanCall(t, r) /\ Idle(t)
    /\ \E count \in 0..MaxAttrs :
       \E tab \in [0..(count - 1) ->
                    [key : AttrKeys, is_bool : BOOLEAN, value : AttrValues]] :
         /\ CallFx(t, r, << Call("vue_block_attrs_count", r, h, count) >>
                         \o AttrsCalls(r, tab, 0, count))
         /\ yielded' = AttrsMap(tab, 0, count, << >>)
    /\ rtState' = Used(rtState, r)
    /\ UNCHANGED <<nextH, issued, live, kind, comp, owner, wrappers, views, iter, built,
                   freeCalls, destroyCalls, foreign, staleRead, panicked, newFailed, pc, input>>

\* Option<&str>
NoneStr == <<"None">>
SomeStr(str) == <<"Some", str>>

\* The strings behind src, setup and module the engine reports in the model.
ValuePtrs == {NullPtr, BadUtf8, CStr(""), CStr("./x.ts")}

\* An accessor that wraps whatever string it got.
EmptyIsNone_unchecked(str) == SomeStr(str)

\* if s.is_empty() { None } else { Some(s) }
EmptyIsNone(str) == IF str = "" THEN NoneStr ELSE SomeStr(str)

\* A Some(&str) borrows the wrapper it was read from.
Lends(r, h, opt) == IF opt = NoneStr THEN views ELSE views \cup {<<r, h>>}

\* src() of a block: ptr_to_str(vue_block_src(..)), the empty string as None.
Block_src(t, r, h) ==
    /\ h # INVALID /\ wrappers[r][h] > 0 /\ kind[r][h] \in BlockKinds
    /\ CanCall(t, r) /\ Idle(t)
    /\ \E ptr \in ValuePtrs :
         /\ CallFx(t, r, << Call("vue_block_src", r, h, ptr) >>)
         /\ yielded' = EmptyIsNone(ptr_to_str(ptr))
    /\ views' = Lends(r, h, yielded')
    /\ Cardinality(views') <= MaxViews
    /\ rtState' = Used(rtState, r)
    /\ UNCHANGED <<nextH, issued, live, kind, comp, owner, wrappers, iter, built,
                   freeCalls, destroyCalls, foreign, staleRead, panicked, newFailed, pc, input>>

\* setup_value() and module_name(): None without the value query when
\* is_setup() / has_module() is false, else the value with the empty string
\* as None.
Flagged_value(t, r, h, k, hasFn, valFn) ==
    /\ Holds(t, r, h, k)
    /\ \E has \in BOOLEAN :
         IF ~has
         THEN /\ CallFx(t, r, << Call(hasFn, r, h, Bit(has)) >>)
              /\ yielded' = NoneStr
         ELSE \E ptr \in ValuePtrs :
                /\ CallFx(t, r, << Call(hasFn, r, h, Bit(has)), Call(valFn, r, h, ptr) >>)
                /\ yielded' = EmptyIsNone(ptr_to_str(ptr))
    /\ views' = Lends(r, h, yielded')
    /\ Cardinality(views') <= MaxViews
    /\ rtState' = Used(rtState, r)
    /\ UNCHANGED <<nextH, issued, live, kind, comp, owner, wrappers, iter, built,
                   freeCalls, destroyCalls, foreign, staleRead, panicked, newFailed, pc, input>>

ScriptBlock_setup_value(t, r, h) ==
    Flagged_value(t, r, h, "ScriptBlock", "vue_script_has_setup", "vue_script_setup_value")

StyleBlock_module_name(t, r, h) ==
    Flagged_value(t, r, h, "StyleBlock", "vue_style_has_module", "vue_style_module_value")

\* A client on one thread that parses a file and reads values off its blocks.
NextBlocks ==
    \/ \E t \in {1} : Created < 1 /\ Compiler_new(t)
    \/ \E t \in {1}, r \in RtPtr : Compiler_parse(t, r)
    \/ \E t \in {1}, r \in RtPtr, h \in Hnd : ParseOutput_descriptor(t, r, h)
    \/ \E t \in {1}, r \in RtPtr, h \in Hnd : Descriptor_template(t, r, h)
    \/ \E t \in {1}, r \in RtPtr, h \in Hnd : Descriptor_script(t, r, h)
    \/ \E t \in {1}, r \in RtPtr, h \in Hnd : Descriptor_styles(t, r, h)
    \/ \E t \in {1} : Iter_next(t)
    \/ Iter_drop
    \/ \E t \in {1}, r \in RtPtr, h \in Hnd : Block_attrs(t, r, h)
    \/ \E t \in {1}, r \in RtPtr, h \in Hnd : Block_src(t, r, h)
    \/ \E t \in {1}, r \in RtPtr, h \in Hnd : ScriptBlock_setup_value(t, r, h)
    \/ \E t \in {1}, r \in RtPtr, h \in Hnd : StyleBlock_module_name(t, r, h)
    \/ \E r \in RtPtr, h \in Hnd : View_release(r, h)
    \/ \E t \in {1}, r \in RtPtr, h \in Hnd : Handle_drop(t, r, h)
    \/ \E t \in {1} : Return(t)

SpecBlocks == Init /\ [][NextBlocks]_vars

\* ------------------------------------------- accessors of owned values
\* A scalar accessor that takes the wrapper by value: the wrapper is dropped
\* and its handle released when the accessor returns.
Scalar_accessor_consuming(t, r, h, k, fn, answers) ==
    /\ Holds(t, r, h, k)
    /\ wrappers[r][h] = 1
    /\ ~Borrowed(r) \/ ~ViewBorrows(r, h)
    /\ \E ans \in answers :
         /\ CallFx(t, r, << Call(fn, r, h, ans) >> \o FreeTrace(Handle_drop_calls(r, h)))
         /\ yielded' = ans
    /\ wrappers' = [wrappers EXCEPT ![r][h] = 0]
    /\ live' = FreedAll(live, Handle_drop_calls(r, h))
    /\ kind' = FreedAllKind(kind, Handle_drop_calls(r, h))
    /\ freeCalls' = FreeCounted(freeCalls, Handle_drop_calls(r, h))
    /\ rtState' = Used(rtState, r)
    /\ UNCHANGED <<nextH, issued, comp, owner, views, iter, built,
                   destroyCalls, foreign, staleRead, panicked, newFailed, pc, input>>

\* A scalar accessor (error_count, has_template, style_count, ..):
\* fn(&self) -> usize or bool, one engine call whose answer is returned.
Scalar_accessor(t, r, h, k, fn, answers) ==
    /\ Holds(t, r, h, k)
    /\ \E ans \in answers :
         /\ CallFx(t, r, << Call(fn, r, h, ans) >>)
         /\ yielded' = ans
    /\ rtState' = Used(rtState, r)
    /\ UNCHANGED <<nextH, issued, live, kind, comp, owner, wrappers, views, iter, built,
                   freeCalls, destroyCalls, foreign, staleRead, panicked, newFailed, pc, input>>

ParseOutput_error_count(t, r, h) ==
    Scalar_accessor(t, r, h, "ParseOutput", "vue_parse_result_error_count", 0..MaxErrors)

Descriptor_has_template(t, r, h) ==
    Scalar_accessor(t, r, h, "Descriptor", "vue_descriptor_has_template", 0..1)

Descriptor_style_count(t, r, h) ==
    Scalar_accessor(t, r, h, "Descriptor", "vue_descriptor_style_count", 0..MaxBlocks)

\* The positions the engine reports in the model: { offset, line, column }.
Positions == {<<0, 1, 1>>, <<7, 2, 1>>}

\* loc() of a block: get_block_loc reads the six numbers of start and end.
Block_loc(t, r, h) ==
    /\ h # INVALID /\ wrappers[r][h] > 0 /\ kind[r][h] \in BlockKinds
    /\ CanCall(t, r) /\ Idle(t)
    /\ \E start \in Positions, end \in Positions :
         /\ CallFx(t, r, << Call("vue_block_loc_start_offset", r, h, start[1]),
                            Call("vue_block_loc_start_line", r, h, start[2]),
                            Call("vue_block_loc_start_column", r, h, start[3]),
                            Call("vue_block_loc_end_offset", r, h, end[1]),
                            Call("vue_block_loc_end_line", r, h, end[2]),
                            Call("vue_block_loc_end_column", r, h, end[3]) >>)
         /\ yielded' = [start |-> start, end |-> end]
    /\ rtState' = Used(rtState, r)
    /\ UNCHANGED <<nextH, issued, live, kind, comp, owner, wrappers, views, iter, built,
                   freeCalls, destroyCalls, foreign, staleRead, panicked, newFailed, pc, input>>

\* The strings behind warnings, deps, css variables and bindings the engine
\* reports in the model.
ItemPtrs == {CStr("a"), CStr("b"), NullPtr}

\* The calls of `for i in 0..count` in a Vec<String> accessor, from index i on.
RECURSIVE ListCalls(_, _, _, _, _)
ListCalls(atFn, r, tab, i, count) ==
    IF i >= count THEN << >>
    ELSE << Call(atFn, r, i, tab[i]) >> \o ListCalls(atFn, r, tab, i + 1, count)

\* warnings(), deps() and css_vars(): the count, then the string at every
\* index below it, copied (to_string) and pushed in order.
List_accessor(t, r, h, k, countFn, atFn) ==
    /\ Holds(t, r, h, k)
    /\ \E count \in 0..MaxItems :
       \E tab \in [0..(count - 1) -> ItemPtrs] :
         /\ CallFx(t, r, << Call(countFn, r, h, count) >> \o ListCalls(atFn, r, tab, 0, count))
         /\ yielded' = [n \in 1..count |-> ptr_to_str(tab[n - 1])]
    /\ rtState' = Used(rtState, r)
    /\ UNCHANGED <<nextH, issued, live, kind, comp, owner, wrappers, views, iter, built,
                   freeCalls, destroyCalls, foreign, staleRead, panicked, newFailed, pc, input>>

ScriptBlock_warnings(t, r, h) ==
    List_accessor(t, r, h, "ScriptBlock", "vue_script_warnings_count", "vue_script_warning_at")

ScriptBlock_deps(t, r, h) ==
    List_accessor(t, r, h, "ScriptBlock", "vue_script_deps_count", "vue_script_dep_at")

Descriptor_css_vars(t, r, h) ==
    List_accessor(t, r, h, "Descriptor", "vue_descriptor_css_vars_count",
                  "vue_descriptor_css_var_at")

\* The calls and the map of `for i in 0..count` in bindings(), from index i
\* on: the key and the value at every index, inserted under the key.
RECURSIVE BindingsCalls(_, _, _, _)
BindingsCalls(r, tab, i, count) ==
    IF i >= count THEN << >>
    ELSE << Call("vue_script_bindings_key_at", r, i, tab[i].key),
            Call("vue_script_bindings_value_at", r, i, tab[i].value) >>
         \o BindingsCalls(r, tab, i + 1, count)

RECURSIVE BindingsMap(_, _, _, _)
BindingsMap(tab, i, count, map) ==
    IF i >= count THEN map
    ELSE BindingsMap(tab, i + 1, count,
                     HashMap_insert(map, ptr_to_str(tab[i].key), ptr_to_str(tab[i].value)))

\* ScriptBlock::bindings
ScriptBlock_bindings(t, r, h) ==
    /\ Holds(t, r, h, "ScriptBlock")
    /\ \E count \in 0..MaxItems :
       \E tab \in [0..(count - 1) -> [key : ItemPtrs, value : {CStr("setup-ref"), NullPtr}]] :
         /\ CallFx(t, r, << Call("vue_script_bindings_count", r, h, count) >>
                         \o BindingsCalls(r, tab, 0, count))
         /\ yielded' = BindingsMap(tab, 0, count, << >>)
    /\ rtState' = Used(rtState, r)
    /\ UNCHANGED <<nextH, issued, live, kind, comp, owner, wrappers, views, iter, built,
                   freeCalls, destroyCalls, foreign, staleRead, panicked, newFailed, pc, input>>

\* ParseOutput::errors: (0..self.error_count()).map(move |i| self.error_message(i)).
\* The count is queried when the iterator is created; the iterator borrows
\* the ParseOutput and requests no message yet.
ParseOutput_errors(t, r, h) ==
    /\ Holds(t, r, h, "ParseOutput")
    /\ iter = NoIter
    /\ \E count \in 0..MaxItems :
         /\ iter' = [rt |-> r, raw |-> h, of |-> "errors", idx |-> 0, count |-> count]
         /\ CallFx(t, r, << Call("vue_parse_result_error_count", r, h, count) >>)
    /\ rtState' = Used(rtState, r)
    /\ yielded' = "-"
    /\ UNCHANGED <<nextH, issued, live, kind, comp, owner, wrappers, views, built,
                   freeCalls, destroyCalls, foreign, staleRead, panicked, newFailed, pc, input>>

\* A range that also yields its upper end (0..=count).
Range_has_next_inclusive(it) == it.idx <= it.count

\* Range::next of 0..count: an index is left while idx < count.
Range_has_next(it) == it.idx < it.count

\* Iterator::next of errors(): the message at the next index of the range,
\* as a &str borrowed from the ParseOutput; None once the range is used up.
Errors_next(t) ==
    /\ iter # NoIter
    /\ iter.of = "errors"
    /\ CanCall(t, iter.rt) /\ Idle(t)
    /\ IF Range_has_next(iter)
       THEN \E ptr \in ItemPtrs :
              /\ CallFx(t, iter.rt,
                        << Call("vue_parse_result_error_message", iter.rt, iter.idx, ptr) >>)
              /\ yielded' = SomeStr(ptr_to_str(ptr))
              /\ iter' = [iter EXCEPT !.idx = @ + 1]
              /\ views' = views \cup {<<iter.rt, iter.raw>>}
              /\ Cardinality(views') <= MaxViews
       ELSE /\ CallFx(t, iter.rt, << >>)
            /\ yielded' = NoneStr
            /\ UNCHANGED <<iter, views>>
    /\ rtState' = Used(rtState, iter.rt)
    /\ UNCHANGED <<nextH, issued, live, kind, comp, owner, wrappers, built, freeCalls,
                   destroyCalls, foreign, staleRead, panicked, newFailed, pc, input>>

\* A client on one thread that parses a file and reads owned values off the
\* parse result, the descriptor and the script block.
NextReads ==
    \/ \E t \in {1} : Created < 1 /\ Compiler_new(t)
    \/ \E t \in {1}, r \in RtPtr : Compiler_parse(t, r)
    \/ \E t \in {1}, r \in RtPtr, h \in Hnd : ParseOutput_descriptor(t, r, h)
    \/ \E t \in {1}, r \in RtPtr, h \in Hnd : Descriptor_script(t, r, h)
    \/ \E t \in {1}, r \in RtPtr, h \in Hnd : ParseOutput_error_count(t, r, h)
    \/ \E t \in {1}, r \in RtPtr, h \in Hnd : Descriptor_has_template(t, r, h)
    \/ \E t \in {1}, r \in RtPtr, h \in Hnd : Descriptor_style_count(t, r, h)
    \/ \E t \in {1}, r \in RtPtr, h \in Hnd : Descriptor_css_vars(t, r, h)
    \/ \E t \in {1}, r \in RtPtr, h \in Hnd : ScriptBlock_warnings(t, r, h)
    \/ \E t \in {1}, r \in RtPtr, h \in Hnd : ScriptBlock_deps(t, r, h)
    \/ \E t \in {1}, r \in RtPtr, h \in Hnd : ScriptBlock_bindings(t, r, h)
    \/ \E t \in {1}, r \in RtPtr, h \in Hnd : ScriptBlock_imports_of(t, r, h, ImportEntries, TRUE)
    \/ \E t \in {1}, r \in RtPtr, h \in Hnd : Block_loc(t, r, h)
    \/ \E t \in {1}, r \in RtPtr, h \in Hnd : Block_attrs(t, r, h)
    \/ \E t \in {1}, r \in RtPtr, h \in Hnd : Block_src(t, r, h)
    \/ \E t \in {1}, r \in RtPtr, h \in Hnd : String_accessor(t, r, h)
    \/ \E r \in RtPtr, h \in Hnd : View_release(r, h)
    \/ \E t \in {1}, r \in RtPtr, h \in Hnd : Handle_drop(t, r, h)
    \/ \E t \in {1} : Return(t)

SpecReads == Init /\ [][NextReads]_vars

\* A client on one thread that parses a file and runs the accessors that
\* loop over a count: the collections and the three lazy iterators.
NextLoops ==
    \/ \E t \in {1} : Created < 1 /\ Compiler_new(t)
    \/ \E t \in {1}, r \in RtPtr : Compiler_parse(t, r)
    \/ \E t \in {1}, r \in RtPtr, h \in Hnd : ParseOutput_descriptor(t, r, h)
    \/ \E t \in {1}, r \in RtPtr, h \in Hnd : Descriptor_script(t, r, h)
    \/ \E t \in {1}, r \in RtPtr, h \in Hnd : ScriptBlock_imports(t, r, h)
    \/ \E t \in {1}, r \in RtPtr, h \in Hnd : ScriptBlock_bindings(t, r, h)
    \/ \E t \in {1}, r \in RtPtr, h \in Hnd : ScriptBlock_warnings(t, r, h)
    \/ \E t \in {1}, r \in RtPtr, h \in Hnd : ScriptBlock_deps(t, r, h)
    \/ \E t \in {1}, r \in RtPtr, h \in Hnd : Descriptor_css_vars(t, r, h)
    \/ \E t \in {1}, r \in RtPtr, h \in Hnd : Block_attrs(t, r, h)
    \/ \E t \in {1}, r \in RtPtr, h \in Hnd : Descriptor_styles(t, r, h)
    \/ \E t \in {1}, r \in RtPtr, h \in Hnd : Descriptor_custom_blocks(t, r, h)
    \/ \E t \in {1} : Iter_next(t)
    \/ \E t \in {1}, r \in RtPtr, h \in Hnd : ParseOutput_errors(t, r, h)
    \/ \E t \in {1} : Errors_next(t)
    \/ Iter_drop
    \/ \E r \in RtPtr, h \in Hnd : View_release(r, h)
    \/ \E t \in {1}, r \in RtPtr, h \in Hnd : Handle_drop(t, r, h)
    \/ \E t \in {1} : Return(t)

SpecLoops == Init /\ [][NextLoops]_vars

\* Every engine call returns: a call in progress is not held up forever.
FairLoops == SpecLoops /\ WF_busy(Return(1))

\* A client on one thread that parses a file and inspects its style blocks.
NextStyles ==
    \/ \E t \in {1} : Created < 1 /\ Compiler_new(t)
    \/ \E t \in {1}, r \in RtPtr : Compiler_parse(t, r)
    \/ \E t \in {1}, r \in RtPtr, h \in Hnd : ParseOutput_descriptor(t, r, h)
    \/ \E t \in {1}, r \in RtPtr, h \in Hnd : Descriptor_styles(t, r, h)
    \/ \E t \in {1} : Iter_next(t)
    \/ Iter_drop
    \/ \E t \in {1}, r \in RtPtr, h \in Hnd : Descriptor_has_scoped_style(t, r, h)
    \/ \E t \in {1}, r \in RtPtr, h \in Hnd : ParseOutput_has_errors(t, r, h)
    \/ \E t \in {1}, r \in RtPtr, h \in Hnd : Handle_drop(t, r, h)
    \/ \E t \in {1}, r \in RtPtr : Compiler_drop(t, r)
    \/ \E t \in {1} : Return(t)

SpecStyles == Init /\ [][NextStyles]_vars

\* A client on two threads with two Compilers, running the compile pipeline
\* and moving Compilers between its threads.
NextTwo ==
    \/ \E t \in Threads : Compiler_new(t)
    \/ \E t \in Threads, r \in RtPtr, t2 \in Threads : Compiler_send(t, r, t2)
    \/ PipelineOps(Threads)

SpecTwo == Init /\ [][NextTwo]_vars

\* Two runs of the same operations side by side: Compiler 1 stays on thread
\* Ref, Compiler 2 is moved between the threads of Threads while no call is in
\* progress.  Each operation is issued on Compiler 1 first and then on
\* Compiler 2; a pair whose engines answered differently is not continued.
PairIdle == \A t \in AllThreads : busy[t] = {}

InSync ==
    /\ comp[1] = comp[2]
    /\ rtState[1] = rtState[2]
    /\ nextH[1] = nextH[2]
    /\ live[1] = live[2]
    /\ kind[1] = kind[2]
    /\ wrappers[1] = wrappers[2]
    /\ built[1] = built[2]
    /\ freeCalls[1] = freeCalls[2]
    /\ destroyCalls[1] = destroyCalls[2]

\* Compiler 1 may issue its next operation.
RefTurn == PairIdle /\ InSync /\ comp[1] = "live"

\* Compiler 1 has issued the operation that starts with fn and Compiler 2 has
\* not yet.
EchoOf(fn) ==
    /\ busy[Ref] # {}
    /\ \A t \in Threads : busy[t] = {}
    /\ Len(trace) > 0
    /\ trace[1][1] = fn
    /\ trace[1][2] = 1

NextPair ==
    \/ PairIdle /\ comp[1] = "none" /\ Compiler_new(Ref)
    \/ PairIdle /\ comp[1] = "live" /\ comp[2] = "none" /\ Compiler_new(1)
    \/ PairIdle /\ \E t \in Threads, t2 \in Threads : Compiler_send(t, 2, t2)
    \/ RefTurn /\ Compiler_parse(Ref, 1)
    \/ EchoOf("vue_parse") /\ \E t \in Threads : Compiler_parse(t, 2)
    \/ RefTurn /\ Compiler_compile_style(Ref, 1)
    \/ EchoOf("vue_compile_style") /\ \E t \in Threads : Compiler_compile_style(t, 2)
    \/ RefTurn /\ Compiler_compile_template(Ref, 1, None)
    \/ EchoOf("vue_compile_template")
          /\ \E t \in Threads : Compiler_compile_template(t, 2, None)
    \/ RefTurn /\ \E h \in Hnd : ParseOutput_descriptor(Ref, 1, h)
    \/ EchoOf("vue_parse_result_descriptor")
          /\ \E t \in Threads : ParseOutput_descriptor(t, 2, trace[1][3])
    \/ RefTurn /\ \E h \in Hnd : ParseOutput_has_errors(Ref, 1, h)
    \/ EchoOf("vue_parse_result_error_count")
          /\ \E t \in Threads : ParseOutput_has_errors(t, 2, trace[1][3])
    \/ RefTurn /\ \E h \in Hnd : Handle_drop(Ref, 1, h)
    \/ EchoOf("hermes_handle_free") /\ \E t \in Threads : Handle_drop(t, 2, trace[1][3])
    \/ RefTurn /\ Compiler_drop(Ref, 1)
    \/ EchoOf("hermes_runtime_destroy") /\ \E t \in Threads : Compiler_drop(t, 2)
    \/ \E t \in AllThreads : (IF trace = << >> THEN TRUE ELSE trace[1][2] = 2) /\ Return(t)

SpecPair == Init /\ [][NextPair]_vars

\* ------------------------------------------- examples/bench_sfc.rs
\* StyleBlock::is_scoped
StyleBlock_is_scoped(t, r, h) ==
    /\ Holds(t, r, h, "StyleBlock")
    /\ \E scoped \in BOOLEAN :
         /\ CallFx(t, r, << Call("vue_style_is_scoped", r, h, Bit(scoped)) >>)
         /\ yielded' = IF scoped THEN "true" ELSE "false"
    /\ rtState' = Used(rtState, r)
    /\ UNCHANGED <<nextH, issued, live, kind, comp, owner, wrappers, views, iter, built,
                   freeCalls, destroyCalls, foreign, staleRead, panicked, newFailed, pc, input>>

\* main calls compile(&compiler, ..) once the Compiler is there.
Main_compile ==
    /\ pc = "-"
    /\ \E r \in Rt : CompilerUsable(r)
    /\ pc' = "parse"
    /\ UNCHANGED <<engineVars, comp, owner, wrappers, views, iter, busy, built, freeCalls,
                   destroyCalls, ghostFlags, trace, yielded, input>>

\* An accessor of the wrapper of type k: content() and code().
Compile_read(k) ==
    \E r \in RtPtr, h \in Hnd : kind[r][h] = k /\ String_accessor(1, r, h)

\* The local of type k goes out of scope at the end of its block.
Compile_drop(k) ==
    \E r \in RtPtr, h \in Hnd : kind[r][h] = k /\ Handle_drop(1, r, h)

\* compile() returns, by `?` or at its end: the locals still alive go out of
\* scope in the reverse order of their declaration, the latest first.
Compile_unwind ==
    /\ pc \in {"unwind", "return"}
    /\ \E r \in RtPtr, h \in Hnd :
         /\ \A g \in Hnd : g > h => wrappers[r][g] = 0
         /\ Handle_drop(1, r, h)

\* main and its compile(), one run: the statements in program order.
NextCompile ==
    \/ pc = "-" /\ Created < 1 /\ Compiler_new(1)
    \/ Main_compile
    \/ pc = "parse" /\ \E r \in RtPtr : Compiler_parse(1, r)
    \/ pc = "descriptor" /\ \E r \in RtPtr, h \in Hnd : ParseOutput_descriptor(1, r, h)
    \/ pc = "compile_script" /\ \E r \in RtPtr, h \in Hnd : Descriptor_compile_script(1, r, h)
    \/ pc = "template" /\ \E r \in RtPtr, h \in Hnd : Descriptor_template(1, r, h)
    \/ pc = "content" /\ Compile_read("TemplateBlock")
    \/ pc = "has_scoped_style" /\ \E r \in RtPtr, h \in Hnd : Descriptor_has_scoped_style(1, r, h)
    \/ pc = "compile_template"
          /\ \E r \in RtPtr, h \in Hnd : Compiler_compile_template(1, r, Some(r, h))
    \/ pc = "code" /\ Compile_read("TemplateOutput")
    \/ pc = "drop_result" /\ Compile_drop("TemplateOutput")
    \/ pc = "drop_tmpl" /\ Compile_drop("TemplateBlock")
    \/ pc = "styles" /\ \E r \in RtPtr, h \in Hnd : Descriptor_styles(1, r, h)
    \/ pc = "next" /\ Iter_next(1)
    \/ pc = "style_content" /\ Compile_read("StyleBlock")
    \/ pc = "is_scoped" /\ \E r \in RtPtr, h \in Hnd : StyleBlock_is_scoped(1, r, h)
    \/ pc = "compile_style" /\ \E r \in RtPtr : Compiler_compile_style(1, r)
    \/ pc = "style_code" /\ Compile_read("StyleOutput")
    \/ pc = "drop_style_result" /\ Compile_drop("StyleOutput")
    \/ pc = "drop_style" /\ Compile_drop("StyleBlock")
    \/ pc \in {"script_content", "unwind"} /\ Iter_drop
    \/ pc = "script_content" /\ iter = NoIter /\ Compile_read("ScriptOutput")
    \/ \E r \in RtPtr, h \in Hnd : View_release(r, h)
    \/ Compile_unwind
    \/ pc \in {"unwind", "return"} /\ \E r \in RtPtr : Compiler_drop(1, r)
    \/ Return(1)

SpecCompile == Init /\ [][NextCompile]_vars

\* ------------------------------- the global-runtime generation (src/src)
\* Strings as the bytes of a &str: NUL and the letter a.
Bytes == {0, 97}

Strs == UNION {[1..n -> Bytes] : n \in 0..MaxLen}

HasNul(str) == \E i \in DOMAIN str : str[i] = 0

\* A conversion that appends the terminator to whatever it is given.
CString_new_unchecked(str) == [ok |-> TRUE, bytes |-> str \o <<0>>]

\* CString::new: Err(NulError) when the bytes contain a 0, else the bytes
\* followed by the terminating 0.
CString_new(str) ==
    IF HasNul(str) THEN [ok |-> FALSE, bytes |-> << >>]
    ELSE [ok |-> TRUE, bytes |-> str \o <<0>>]

\* The entry points of this generation take no runtime: the engine keeps one
\* runtime of its own, the first of the model's.
Global == 1

\* What `?` returns for the NulError of CString::new.
ErrNul == "Err: NulError"

\* The arguments of compile_template and compile_style.
InitGlobal == NothingYet /\ input \in [source : Strs, filename : Strs, id : Strs]

\* compile_template (bindings = None) and compile_style: the three strings
\* are converted with CString::new(..)? in the order source, filename, id; then
\* the engine is called, and Handle::new(handle).map(..).ok_or_else(..) wraps
\* a nonzero handle and turns 0 into an error.
Global_compile(fn, k, err, rest) ==
    /\ Idle(1)
    /\ LET source_c   == CString_new(input.source)
           filename_c == CString_new(input.filename)
           id_c       == CString_new(input.id)
       IN
       IF ~(source_c.ok /\ filename_c.ok /\ id_c.ok)
       THEN /\ CallFx(1, Global, << >>)
            /\ yielded' = ErrNul
            /\ UNCHANGED <<rtState, nextH, issued, live, kind, wrappers, built>>
       ELSE \E raw \in EngineReturns(Global) :
              LET opt == Handle_new(raw, Global) IN
              /\ nextH' = IssuedNext(nextH, Global, raw)
              /\ issued' = IssuedCount(issued, raw, "wrapped")
              /\ live' = IssuedLive(live, Global, raw)
              /\ kind' = IssuedKind(kind, Global, raw, k)
              /\ wrappers' = Wrapped(wrappers, opt)
              /\ built' = Wrapped(built, opt)
              /\ yielded' = IF opt.some THEN "Ok" ELSE err
              /\ rtState' = Used(rtState, Global)
              /\ CallFx(1, Global,
                        << Call(fn, Global,
                                <<source_c.bytes, filename_c.bytes, id_c.bytes>> \o rest,
                                raw) >>)
    /\ UNCHANGED <<comp, owner, views, iter, freeCalls, destroyCalls,
                   foreign, staleRead, panicked, newFailed, pc, input>>

Global_compile_template ==
    Global_compile("vue_compile_template", "TemplateOutput", ErrCompileTemplate, <<INVALID>>)

Global_compile_style ==
    Global_compile("vue_compile_style", "StyleOutput", ErrCompileStyle, << >>)

\* Drop for Handle of this generation: vue_handle_free(raw).
Global_Handle_drop(h) ==
    /\ wrappers[Global][h] > 0
    /\ Idle(1)
    /\ wrappers' = [wrappers EXCEPT ![Global][h] = @ - 1]
    /\ live' = FreedLive(live, Global, h)
    /\ kind' = FreedKind(kind, Global, h)
    /\ freeCalls' = [freeCalls EXCEPT ![Global][h] = @ + 1]
    /\ CallFx(1, Global, << Call("vue_handle_free", Global, h, 0) >>)
    /\ yielded' = "-"
    /\ UNCHANGED <<rtState, nextH, issued, comp, owner, views, iter, built, destroyCalls,
                   foreign, staleRead, panicked, newFailed, pc, input>>

\* A client that compiles templates and styles from the strings it was given.
NextGlobal ==
    \/ Global_compile_template
    \/ Global_compile_style
    \/ \E h \in Hnd : Global_Handle_drop(h)
    \/ \E t \in {1} : Return(t)

SpecGlobal == InitGlobal /\ [][NextGlobal]_vars

\* ------------------------------------ the earliest generation (lib.rs)
\* The C strings the engine hands back, as chunks of text: render code, an
\* error report, JSON arrays of strings, and bytes that are not UTF-8.
LibTexts ==
    { <<"render()">>, <<"ERROR: ", "bad template">>, <<"[", "\"a\"", "]">>, <<"[", "]">>,
      <<"\\xff">> }

\* c_str.to_string_lossy().into_owned(): bytes that are not UTF-8 become U+FFFD.
to_string_lossy(text) ==
    [i \in DOMAIN text |-> IF text[i] = "\\xff" THEN "U+FFFD" ELSE text[i]]

starts_with(str, prefix) == Len(str) > 0 /\ str[1] = prefix

\* if result_str.starts_with("ERROR: ") { Err(result_str[7..]) } else { Ok(result_str) }
Template_result(str) ==
    IF starts_with(str, "ERROR: ") THEN <<"Err", Tail(str)>> ELSE <<"Ok", str>>

\* serde_json::from_str::<Vec<String>>: an array of string literals, or an error.
Batch_result(str) ==
    IF /\ Len(str) >= 2 /\ str[1] = "[" /\ str[Len(str)] = "]"
       /\ \A i \in 2..(Len(str) - 1) : str[i] = "\"a\""
    THEN <<"Ok", [i \in 1..(Len(str) - 2) |-> "a"]>>
    ELSE <<"Err", "Failed to parse results">>

\* serde_json::to_string of &[&str] as bytes: [ "..", ".." ], a NUL byte
\* written as the escape \u0000.
RECURSIVE JsonString(_)
JsonString(str) ==
    IF str = << >> THEN << >>
    ELSE (IF Head(str) = 0 THEN <<92, 117, 48, 48, 48, 48>> ELSE <<Head(str)>>)
         \o JsonString(Tail(str))

RECURSIVE JsonItems(_)
JsonItems(list) ==
    IF list = << >> THEN << >>
    ELSE <<34>> \o JsonString(Head(list)) \o <<34>>
         \o (IF Len(list) > 1 THEN <<44>> ELSE << >>) \o JsonItems(Tail(list))

Json_to_string(list) == <<91>> \o JsonItems(list) \o <<93>>

\* The arguments of compile_template and compile_batch.
InitLib ==
    /\ NothingYet
    /\ input \in [template : Strs, templates : UNION {[1..n -> Strs] : n \in 0..MaxTemplates}]

\* A copy taken from the C string after it was handed back to the engine.
Copied_after_free(ptr, text) ==
    << Call("vue_free_string", Global, ptr, 0),
       Call("CStr::from_ptr", Global, ptr, text) >>

\* let s = CStr::from_ptr(result_ptr).to_string_lossy().into_owned();
\* vue_free_string(result_ptr); s
Copied(ptr, text) ==
    << Call("CStr::from_ptr", Global, ptr, text),
       Call("vue_free_string", Global, ptr, 0) >>

\* The body both functions share: the argument c converted by CString::new,
\* the engine call fn, the null check, the copy and the release, and the
\* result made of the copy (the "ERROR: " test or the JSON parse).
Lib_call(fn, c, errArg, errNull) ==
    /\ Idle(1)
    /\ IF ~c.ok
       THEN /\ CallFx(1, Global, << >>)
            /\ yielded' = <<"Err", errArg>>
            /\ UNCHANGED <<rtState, nextH, issued, live, kind, freeCalls, staleRead>>
       ELSE \E ptr \in EngineReturns(Global) :
              IF ptr = NULL
              THEN /\ CallFx(1, Global, << Call(fn, Global, c.bytes, ptr) >>)
                   /\ yielded' = <<"Err", errNull>>
                   /\ rtState' = Used(rtState, Global)
                   /\ UNCHANGED <<nextH, issued, live, kind, freeCalls, staleRead>>
              ELSE \E text \in LibTexts :
                     LET tr    == << Call(fn, Global, c.bytes, ptr) >> \o Copied(ptr, text)
                         frees == {i \in DOMAIN tr : tr[i][1] = "vue_free_string"}
                         reads == {i \in DOMAIN tr : tr[i][1] = "CStr::from_ptr"}
                     IN
                     /\ CallFx(1, Global, tr)
                     /\ yielded' = IF fn = "vue_compile_template"
                                THEN Template_result(to_string_lossy(text))
                                ELSE Batch_result(to_string_lossy(text))
                     /\ rtState' = Used(rtState, Global)
                     /\ nextH' = IssuedNext(nextH, Global, ptr)
                     /\ issued' = IssuedCount(issued, ptr, "wrapped")
                     /\ live' = IF frees = {} THEN IssuedLive(live, Global, ptr) ELSE live
                     /\ kind' = IF frees = {} THEN IssuedKind(kind, Global, ptr, "CString")
                                ELSE kind
                     /\ freeCalls' = [freeCalls EXCEPT ![Global][ptr] = @ + Cardinality(frees)]
                     /\ staleRead' = (staleRead
                                       \/ \E i \in frees, j \in reads : i < j)
    /\ UNCHANGED <<comp, owner, wrappers, views, iter, built, destroyCalls,
                   foreign, panicked, newFailed, pc, input>>

Lib_compile_template ==
    Lib_call("vue_compile_template", CString_new(input.template),
             "Invalid template string", "Compilation returned null")

Lib_compile_batch ==
    Lib_call("vue_compile_batch", CString_new(Json_to_string(input.templates)),
             "Invalid JSON", "Batch compilation returned null")

\* A client that compiles the template and the batch it was given.
NextLib ==
    \/ Lib_compile_template
    \/ Lib_compile_batch
    \/ \E t \in {1} : Return(t)

SpecLib == InitLib /\ [][NextLib]_vars

\* ------------------------------------------------------------ properties
\* C1: over any sequence of operations hermes_handle_free is issued at most
\* once for each handle the engine issued (never for a value it did not
\* issue), and never for the sentinel 0.
HandleFreedAtMostOnce ==
    \A r \in RtPtr :
      /\ freeCalls[r][INVALID] = 0
      /\ \A h \in Hnd : freeCalls[r][h] <= 1 /\ (freeCalls[r][h] = 1 => h < nextH[r])

\* A wrapper was dropped and imports() released a secondary handle.
FreedByDropAndByImports ==
    /\ issued["imports"] > 0
    /\ \E r \in Rt, h \in Hnd : built[r][h] = 1 /\ wrappers[r][h] = 0 /\ freeCalls[r][h] = 1
    /\ \E r \in Rt, h \in Hnd : built[r][h] = 0 /\ freeCalls[r][h] = 1

\* C2: in the step that issues hermes_runtime_destroy for a runtime no wrapper
\* bound to it is live, and every wrapper constructed for it has released.
NoWrapperAtDestroy ==
    [][\A r \in RtPtr : destroyCalls'[r] > destroyCalls[r] =>
         \A h \in Hnd : /\ wrappers[r][h] = 0
                        /\ built[r][h] > 0 => freeCalls[r][h] = built[r][h]]_vars

\* A runtime was destroyed after wrappers had been constructed for it.
DestroyedAfterWrappers ==
    \E r \in Rt : /\ rtState[r] = "destroyed"
                  /\ \E h \in Hnd : built[r][h] > 0

\* C3: hermes_runtime_destroy is issued exactly once for the runtime of each
\* Compiler that Compiler::new returned, in the step that drops the Compiler,
\* and in no other step.
DestroyedOnceAtDrop ==
    [][\A r \in RtPtr :
         /\ destroyCalls'[r] = (IF comp'[r] = "dropped" THEN 1 ELSE 0)
         /\ destroyCalls'[r] # destroyCalls[r] <=>
              (comp[r] = "live" /\ comp'[r] = "dropped")]_vars

\* A Compiler that was used has been dropped.
CompilerDropped ==
    \E r \in Rt : comp[r] = "dropped" /\ destroyCalls[r] = 1 /\ nextH[r] > 1

Rank(st) ==
    CASE st = "none" -> 0
      [] st = "created" -> 1
      [] st = "inuse" -> 2
      [] st = "destroyed" -> 3

\* C4: no engine call targets a runtime after its hermes_runtime_destroy; the
\* state of a runtime only advances along created, in use, destroyed, and a
\* destroyed runtime sees no further issue, release or destroy.
NoCallAfterDestroy ==
    [][/\ ~lateCall'
       /\ \A r \in RtPtr :
            /\ Rank(rtState'[r]) >= Rank(rtState[r])
            /\ rtState[r] = "destroyed" =>
                 /\ rtState'[r] = "destroyed"
                 /\ nextH'[r] = nextH[r]
                 /\ freeCalls'[r] = freeCalls[r]
                 /\ destroyCalls'[r] = destroyCalls[r]]_vars

\* A runtime went through created and in use, with releases, to destroyed.
DestroyedAfterUse ==
    \E r \in Rt : /\ rtState[r] = "destroyed"
                  /\ \E h \in Hnd : freeCalls[r][h] > 0

\* C5: every wrapper issues exactly one hermes_handle_free, in the step that
\* drops it and not before, with its own raw value and its own runtime.
OneFreePerWrapperAtDrop ==
    [][\A r \in RtPtr, h \in Hnd :
         /\ wrappers'[r][h] < wrappers[r][h] =>
              /\ wrappers'[r][h] = wrappers[r][h] - 1
              /\ freeCalls'[r][h] = freeCalls[r][h] + 1
              /\ \A q \in RtPtr, g \in Hnd :
                   <<q, g>> # <<r, h>> => freeCalls'[q][g] = freeCalls[q][g]
         /\ wrappers'[r][h] > 0 => freeCalls'[r][h] = 0
         /\ built'[r][h] > 0 => built'[r][h] = wrappers'[r][h] + freeCalls'[r][h]]_vars

\* One wrapper has been dropped while another of the same runtime is alive.
DroppedBesideLive ==
    \E r \in Rt, h \in Hnd, g \in Hnd :
      /\ built[r][h] = 1 /\ wrappers[r][h] = 0 /\ freeCalls[r][h] = 1
      /\ wrappers[r][g] = 1 /\ freeCalls[r][g] = 0

\* C6: a borrowed string is only read while the handle it came from is live:
\* while the string is alive its wrapper is alive and has not released.
NoReadAfterRelease ==
    /\ ~staleRead
    /\ \A v \in views : /\ v[2] \in live[v[1]]
                        /\ wrappers[v[1]][v[2]] > 0
                        /\ freeCalls[v[1]][v[2]] = 0

\* A borrowed string was read after other wrappers had been released.
ReadWhileLive ==
    /\ yielded = "str"
    /\ views # {}
    /\ \E r \in Rt, h \in Hnd : freeCalls[r][h] > 0

\* C7: every engine call passes only handles issued by the runtime the call
\* targets, compile_template(.., Some(script)) included.
OnlyOwnHandlesPassed == ~foreign

NoWrapperForInvalid ==
    /\ \A raw \in Hnd, r \in Rt :
         /\ Handle_new(raw, r) = None <=> raw = INVALID
         /\ raw # INVALID => /\ Handle_new(raw, r).raw = raw
                             /\ Handle_new(raw, r).rt = r
    /\ \A r \in RtPtr : /\ built[r][INVALID] = 0
                        /\ wrappers[r][INVALID] = 0
                        /\ freeCalls[r][INVALID] = 0

\* compile_script got 0 from the engine, Handle::new returned None and the
\* operation reported it.
NewReturnedNone ==
    /\ yielded = ErrCompileScript
    /\ \E r \in Rt : wrappers[r][INVALID] = 0 /\ nextH[r] > 1

\* C10: when hermes_runtime_create returns null, Compiler::new returns Err
\* without a panic, no Compiler exists over the null runtime, no destroy is
\* issued for it, and the failed attempt changes nothing a later
\* Compiler::new depends on.
NewFailureContained ==
    [][/\ comp'[NULL] = "none"
       /\ rtState'[NULL] = "none"
       /\ destroyCalls'[NULL] = 0
       /\ ~panicked'
       /\ (yielded' = ErrNew /\ yielded # ErrNew) =>
            UNCHANGED <<engineVars, comp, owner, wrappers, views, iter, busy,
                        built, freeCalls, destroyCalls, lateCall, foreign,
                        staleRead, panicked>>]_vars

\* After a failed Compiler::new a later one succeeded and its Compiler is in use.
NewSucceededAfterFailure ==
    /\ newFailed
    /\ \E r \in Rt : comp[r] = "live" /\ nextH[r] > 1

\* C11: Compiler::parse returns Ok(ParseOutput) over the handle whenever
\* vue_parse answers a nonzero handle (the error count is asked of the result
\* later and plays no part), Err("Parse returned invalid handle") exactly
\* when it answers 0, and never panics.
ParseOkUnlessInvalid ==
    [][(trace' # trace /\ Len(trace') > 0 /\ trace'[1][1] = "vue_parse") =>
         LET r == trace'[1][2]
             raw == trace'[1][4]
         IN
         /\ Len(trace') = 1
         /\ ~panicked'
         /\ yielded' \in {"Ok", ErrParse}
         /\ yielded' = ErrParse <=> raw = INVALID
         /\ raw # INVALID => /\ wrappers'[r][raw] = 1
                             /\ kind'[r][raw] = "ParseOutput"
         /\ raw = INVALID => wrappers' = wrappers]_vars

\* A ParseOutput that parse returned as Ok reports a nonzero error count.
ParseOutputReportsErrors ==
    /\ Len(trace) = 1
    /\ trace[1][1] = "vue_parse_result_error_count"
    /\ trace[1][4] > 0
    /\ wrappers[trace[1][2]][trace[1][3]] = 1
    /\ kind[trace[1][2]][trace[1][3]] = "ParseOutput"

\* C12: when vue_compile_template, vue_compile_style or vue_compile_script
\* answers 0 the operation returns the Err naming it, constructs no wrapper,
\* issues no release, does not panic, and no wrapper holds 0.
CompileErrOnInvalid ==
    [][(trace' # trace /\ Len(trace') > 0) =>
         LET c == trace'[Len(trace')] IN
         (c[1] \in {"vue_compile_template", "vue_compile_style", "vue_compile_script"}
          /\ c[4] = INVALID) =>
           /\ yielded' = (CASE c[1] = "vue_compile_template" -> ErrCompileTemplate
                         [] c[1] = "vue_compile_style" -> ErrCompileStyle
                         [] c[1] = "vue_compile_script" -> ErrCompileScript)
           /\ wrappers' = wrappers
           /\ built' = built
           /\ freeCalls' = freeCalls
           /\ \A q \in RtPtr : wrappers'[q][INVALID] = 0
           /\ ~panicked']_vars

\* compile_style got 0 from the engine of a runtime that had issued
\* handles before, and returned its Err.
CompileStyleFailed ==
    /\ yielded = ErrCompileStyle
    /\ Len(trace) = 1
    /\ trace[1][1] = "vue_compile_style"
    /\ trace[1][4] = INVALID
    /\ nextH[trace[1][2]] > 1

\* C13: has_errors() is true exactly when the error count is above zero or
\* the descriptor query answers 0 (asked only when the count is zero).
HasErrorsIffCountOrNoDescriptor ==
    [][(trace' # trace /\ Len(trace') > 0
        /\ trace'[1][1] = "vue_parse_result_error_count") =>
         LET count == trace'[1][4] IN
         /\ count = 0 => /\ Len(trace') >= 2
                         /\ trace'[2][1] = "vue_parse_result_descriptor"
         /\ yielded' \in {"true", "false"}
         /\ yielded' = "true" <=> (count > 0 \/ trace'[2][4] = INVALID)]_vars

\* has_errors() returned true with a zero error count and no descriptor.
HasErrorsWithoutDescriptor ==
    /\ yielded = "true"
    /\ Len(trace) = 2
    /\ trace[1] = Call("vue_parse_result_error_count", trace[1][2], trace[1][3], 0)
    /\ trace[2][1] = "vue_parse_result_descriptor"
    /\ trace[2][4] = INVALID

\* C14: template(), script() and script_setup() return None without the fetch
\* when the has-flag is false; they and descriptor() return None when the
\* fetch answers 0 and otherwise Some wrapper over the answered handle;
\* none of them returns an error or panics.
AbsentIsNone ==
    [][(trace' # trace /\ Len(trace') > 0) =>
         LET f == trace'[1][1]
             n == Len(trace')
             c == trace'[n]
             fetch == CASE f = "vue_descriptor_has_template" -> "vue_descriptor_template"
                        [] f = "vue_descriptor_has_script" -> "vue_descriptor_script"
                        [] f = "vue_descriptor_has_script_setup" -> "vue_descriptor_script_setup"
                        [] OTHER -> "vue_parse_result_descriptor"
         IN
         (f \in {"vue_descriptor_has_template", "vue_descriptor_has_script",
                 "vue_descriptor_has_script_setup", "vue_parse_result_descriptor"}) =>
           /\ ~panicked'
           /\ yielded' \in {"Some", "None"}
           /\ IF f # "vue_parse_result_descriptor" /\ trace'[1][4] = 0
              THEN /\ n = 1
                   /\ yielded' = "None"
                   /\ wrappers' = wrappers
                   /\ nextH' = nextH
              ELSE /\ n = (IF f = "vue_parse_result_descriptor" THEN 1 ELSE 2)
                   /\ c[1] = fetch
                   /\ c[4] = INVALID => yielded' = "None" /\ wrappers' = wrappers
                   /\ c[4] # INVALID => /\ yielded' = "Some"
                                        /\ wrappers'[c[2]][c[4]] = 1
                                        /\ c[4] \in live'[c[2]]]_vars

\* template() returned None on a false has-flag, with no fetch issued.
NoneWithoutFetch ==
    /\ yielded = "None"
    /\ trace = << Call("vue_descriptor_has_template", trace[1][2], trace[1][3], 0) >>

\* C15: in imports() every valid secondary handle is followed at once by its
\* four field reads and then its one release, before the next index is
\* fetched; at no point are two secondary handles outstanding, and none is
\* when imports() returns.
ImportsReleaseEachHandle ==
    [][(trace' # trace /\ Len(trace') > 0 /\ trace'[1][1] = "vue_script_imports_count") =>
         LET tr == trace'
             r == tr[1][2]
             Got(q) == {p \in 1..q : tr[p][1] = "vue_script_imports_value_at"
                                      /\ tr[p][4] # INVALID}
             Freed(q) == {p \in 1..q : tr[p][1] = "hermes_handle_free"}
         IN
         /\ \A p \in Got(Len(tr)) :
              LET hv == tr[p][4] IN
              /\ p + 5 <= Len(tr)
              /\ tr[p + 1][1] = "vue_import_binding_is_type"
              /\ tr[p + 2][1] = "vue_import_binding_imported"
              /\ tr[p + 3][1] = "vue_import_binding_source"
              /\ tr[p + 4][1] = "vue_import_binding_is_from_setup"
              /\ \A q \in (p + 1)..(p + 4) : tr[q][2] = r /\ tr[q][3] = hv
              /\ tr[p + 5] = Call("hermes_handle_free", r, hv, 0)
              /\ Cardinality({q \in 1..Len(tr) :
                                tr[q] = Call("hermes_handle_free", r, hv, 0)}) = 1
              /\ freeCalls'[r][hv] = 1
              /\ hv \notin live'[r]
         /\ \A q \in 1..Len(tr) :
              /\ Cardinality(Got(q)) - Cardinality(Freed(q)) \in {0, 1}
              /\ tr[q][1] \in {"vue_script_imports_key_at", "vue_script_imports_value_at"}
                   => Cardinality(Got(q - 1)) = Cardinality(Freed(q - 1))
         /\ Cardinality(Got(Len(tr))) = Cardinality(Freed(Len(tr)))]_vars

\* imports() walked two entries with valid secondary handles.
ImportsReleasedTwo ==
    /\ Len(trace) > 0
    /\ trace[1][1] = "vue_script_imports_count"
    /\ Cardinality({p \in 1..Len(trace) : trace[p][1] = "hermes_handle_free"}) = 2

\* C16: when vue_compile_template is passed a nonzero bindings handle, the
\* ScriptOutput it was taken from is alive and unreleased before and after
\* the call, and the call releases nothing: not the ScriptOutput's handle,
\* not the bindings handle.
ScriptOutputOutlivesCompile ==
    [][(trace' # trace /\ Len(trace') = 2
        /\ trace'[1][1] = "vue_script_result_bindings"
        /\ trace'[2][1] = "vue_compile_template"
        /\ trace'[1][4] # INVALID) =>
         LET r2 == trace'[1][2]
             sh == trace'[1][3]
             bh == trace'[1][4]
         IN
         /\ trace'[2][3] = bh
         /\ wrappers[r2][sh] > 0 /\ wrappers'[r2][sh] > 0
         /\ sh \in live[r2] /\ sh \in live'[r2]
         /\ freeCalls[r2][sh] = 0
         /\ freeCalls' = freeCalls
         /\ bh \in live'[r2]]_vars

\* vue_compile_template was passed the bindings handle of a live ScriptOutput.
CompileCalledWithBindings ==
    /\ Len(trace) = 2
    /\ trace[1][1] = "vue_script_result_bindings"
    /\ trace[2][1] = "vue_compile_template"
    /\ trace[1][4] # INVALID
    /\ trace[2][3] = trace[1][4]
    /\ wrappers[trace[1][2]][trace[1][3]] = 1
    /\ kind[trace[1][2]][trace[1][3]] = "ScriptOutput"

\* C19: styles() and custom_blocks() query the count once, when the iterator
\* is created, and fetch nothing then; each next() fetches the indices from
\* where the iterator stands, one fetch per index in increasing order, all
\* below the count, passing over handles that are 0 and yielding a wrapper
\* for the first nonzero one; a new iterator starts again at index 0 with a
\* new count query.
IteratorFetchesLazilyInOrder ==
    [][/\ iter'.idx <= iter'.count
       /\ (iter' # iter /\ iter' # NoIter) =>
            \/ /\ iter = NoIter
               /\ iter'.idx = 0
               /\ trace' = << Call(CountFn(iter'.of), iter'.rt, iter'.raw, iter'.count) >>
               /\ nextH' = nextH
               /\ wrappers' = wrappers
            \/ /\ iter # NoIter
               /\ iter'.idx > iter.idx
               /\ [iter' EXCEPT !.idx = iter.idx] = iter
               /\ Len(trace') = iter'.idx - iter.idx
       /\ (trace' # trace /\ Len(trace') > 0
           /\ trace'[1][1] \in {"vue_descriptor_style_at", "vue_descriptor_custom_block_at"}) =>
            LET n == Len(trace') IN
            /\ iter # NoIter
            /\ iter'.idx = iter.idx + n
            /\ \A i \in 1..n :
                 /\ trace'[i][1] = AtFn(iter.of)
                 /\ trace'[i][2] = iter.rt
                 /\ trace'[i][3] = iter.idx + i - 1
                 /\ trace'[i][3] < iter.count
                 /\ i < n => trace'[i][4] = INVALID
            /\ yielded' \in {"Some", "None"}
            /\ yielded' = "Some" <=> trace'[n][4] # INVALID
            /\ yielded' = "Some" => /\ wrappers'[iter.rt][trace'[n][4]] = 1
                                 /\ kind'[iter.rt][trace'[n][4]] = iter.of
            /\ yielded' = "None" => iter'.idx = iter.count /\ wrappers' = wrappers]_vars

\* A second iteration fetched index 0 again, after an earlier iteration had
\* yielded a style block, and found nothing below the count.
SecondIterationRefetched ==
    /\ yielded = "None"
    /\ Len(trace) > 0
    /\ trace[1][1] = "vue_descriptor_style_at"
    /\ trace[1][3] = 0
    /\ iter # NoIter
    /\ \E h \in Hnd : built[iter.rt][h] > 0 /\ kind[iter.rt][h] = "StyleBlock"

\* C20: has_scoped_style() is true exactly when some index below the style
\* count has a block with a nonzero handle that answers scoped; when it is
\* false every index below the count was fetched and none did; with a count
\* of 0 it is false.
HasScopedStyleIffSomeScoped ==
    [][(trace' # trace /\ Len(trace') > 0 /\ iter' = iter
        /\ trace'[1][1] = "vue_descriptor_style_count") =>
         LET tr == trace'
             r == tr[1][2]
             count == tr[1][4]
             Fetch(i) == {n \in DOMAIN tr : tr[n][1] = "vue_descriptor_style_at"
                                            /\ tr[n][3] = i}
             ScopedAt(i) == \E n \in Fetch(i) :
                              /\ tr[n][4] # INVALID
                              /\ n + 1 <= Len(tr)
                              /\ tr[n + 1] = Call("vue_style_is_scoped", r, tr[n][4], 1)
         IN
         /\ yielded' \in {"true", "false"}
         /\ yielded' = "true" <=> \E i \in 0..(count - 1) : ScopedAt(i)
         /\ yielded' = "false" =>
              \A i \in 0..(count - 1) :
                /\ Cardinality(Fetch(i)) = 1
                /\ \A n \in Fetch(i) :
                     tr[n][4] # INVALID =>
                       /\ n + 1 <= Len(tr)
                       /\ tr[n + 1] = Call("vue_style_is_scoped", r, tr[n][4], 0)
         /\ count = 0 => yielded' = "false"
         /\ \A n \in DOMAIN tr :
              tr[n][1] = "vue_descriptor_style_at" => tr[n][3] < count]_vars

\* Two style blocks, the first not scoped and the second scoped:
\* has_scoped_style() returned true.
ScopedAmongTwo ==
    /\ yielded = "true"
    /\ Len(trace) = 7
    /\ trace[1][1] = "vue_descriptor_style_count" /\ trace[1][4] = 2
    /\ trace[3][1] = "vue_style_is_scoped" /\ trace[3][4] = 0
    /\ trace[6][1] = "vue_style_is_scoped" /\ trace[6][4] = 1

\* C17: with Compilers A and B alive, an operation on A (compile, release of
\* one of A's handles, destroy of A's runtime: its last engine call targets
\* A's runtime) leaves B's handle table as it was: the handles that are live,
\* the objects behind them, the next handle B issues and the releases B saw.
OtherCompilerUntouched ==
    [][\A a \in Rt, b \in Rt :
         (/\ a # b
          /\ comp[a] = "live" /\ comp[b] = "live"
          /\ trace' # trace /\ Len(trace') > 0
          /\ trace'[Len(trace')][2] = a) =>
           /\ live'[b] = live[b]
           /\ kind'[b] = kind[b]
           /\ nextH'[b] = nextH[b]
           /\ freeCalls'[b] = freeCalls[b]]_vars

AttrsByIsBoolLastWins ==
    [][(trace' # trace /\ Len(trace') > 0 /\ trace'[1][1] = "vue_block_attrs_count") =>
         LET tr == trace'
             count == tr[1][4]
             KeyAt(i) == {n \in DOMAIN tr : tr[n][1] = "vue_block_attrs_key_at"
                                            /\ tr[n][3] = i}
             ValueAt(i) == {n \in DOMAIN tr : tr[n][1] = "vue_block_attrs_value_at"
                                              /\ tr[n][3] = i}
             Pos(i) == CHOOSE n \in KeyAt(i) : TRUE
             IsBool(i) == tr[Pos(i) + 1][4] = 1
             Key(i) == ptr_to_str(tr[Pos(i)][4])
             Last(k) == CHOOSE i \in 0..(count - 1) :
                          /\ Key(i) = k
                          /\ \A j \in 0..(count - 1) : Key(j) = k => j <= i
         IN
         /\ \A n \in DOMAIN tr : n > 1 => tr[n][3] \in 0..(count - 1)
         /\ \A i \in 0..(count - 1) :
              /\ Cardinality(KeyAt(i)) = 1
              /\ Pos(i) + 1 <= Len(tr)
              /\ tr[Pos(i) + 1][1] = "vue_block_attrs_is_bool_at"
              /\ tr[Pos(i) + 1][3] = i
              /\ IF IsBool(i) THEN ValueAt(i) = {} ELSE ValueAt(i) = {Pos(i) + 2}
              /\ \A j \in 0..(count - 1) : j < i => Pos(j) < Pos(i)
         /\ DOMAIN yielded' = {Key(i) : i \in 0..(count - 1)}
         /\ \A k \in DOMAIN yielded' :
              yielded'[k] = IF IsBool(Last(k)) THEN AttrBool(TRUE)
                         ELSE AttrString(ptr_to_str(tr[Pos(Last(k)) + 2][4]))]_vars

\* Two attributes with the key lang, css before scss: the map holds scss.
LaterAttrReplacedEarlier ==
    /\ Len(trace) = 7
    /\ trace[1][1] = "vue_block_attrs_count"
    /\ trace[2][4] = CStr("lang") /\ trace[4][4] = CStr("css")
    /\ trace[5][4] = CStr("lang") /\ trace[7][4] = CStr("scss")
    /\ yielded = [k \in {"lang"} |-> AttrString("scss")]

CallsIssuedAtInvocation ==
    [][LET tr == trace'
           invoked == trace' # trace /\ Len(trace') > 0
           Count(fn, r, h) ==
               Cardinality({i \in DOMAIN tr :
                              tr[i][1] = fn /\ tr[i][2] = r /\ tr[i][3] = h})
       IN
       /\ invoked =>
            /\ \A i \in DOMAIN tr : tr[i][2] = tr[1][2]
            /\ tr[1][1] # "hermes_runtime_create" =>
                 \E t \in Threads : busy'[t] = {tr[1][2]} /\ owner[tr[1][2]] = t
            /\ \A r \in RtPtr, h \in Hnd :
                 freeCalls'[r][h] = freeCalls[r][h] + Count("hermes_handle_free", r, h)
            /\ \A r \in RtPtr :
                 destroyCalls'[r] = destroyCalls[r] + Count("hermes_runtime_destroy", r, 0)
       /\ ~invoked => UNCHANGED <<rtState, nextH, live, kind, freeCalls, destroyCalls>>
       /\ \A v \in views' \ views :
            invoked /\ \E i \in DOMAIN tr : tr[i][2] = v[1] /\ tr[i][3] = v[2]
       /\ \A r \in RtPtr, h \in Hnd :
            built'[r][h] > built[r][h] =>
              invoked /\ \E i \in DOMAIN tr : tr[i][2] = r /\ tr[i][4] = h]_vars

\* descriptor() was invoked again while the Descriptor of an earlier
\* invocation is live, and asked the engine again.
DescriptorAskedAgain ==
    /\ Len(trace) = 1
    /\ trace[1][1] = "vue_parse_result_descriptor"
    /\ trace[1][4] # INVALID
    /\ \E h \in Hnd : /\ h # trace[1][4]
                      /\ kind[trace[1][2]][h] = "Descriptor"
                      /\ wrappers[trace[1][2]][h] > 0

\* C24: when compile() of the example was left early, by a step that returned
\* Err or by the absent descriptor, then once main has ended every wrapper
\* built in the run has been released exactly once, none is left, and the
\* runtime has been destroyed exactly once.
EarlyExitReleasesAll ==
    \A r \in Rt :
      (pc = "unwind" /\ comp[r] = "dropped") =>
        /\ destroyCalls[r] = 1
        /\ \A h \in Hnd : /\ wrappers[r][h] = 0
                          /\ built[r][h] <= 1
                          /\ freeCalls[r][h] = built[r][h]

\* compile() was left at a failed compile step with four wrappers built
\* (the parse result, the descriptor, the script result and a block), and
\* main has ended.
LeftAtCompileStep ==
    \E r \in Rt :
      /\ pc = "unwind"
      /\ comp[r] = "dropped"
      /\ destroyCalls[r] = 1
      /\ Cardinality({h \in Hnd : built[r][h] = 1 /\ freeCalls[r][h] = 1}) >= 4

\* C25: at any time at most one Handle wrapper is alive over a (runtime, raw
\* handle) pair, also when descriptor(), template() or styles() is invoked
\* again while the wrapper of an earlier invocation is alive: each invocation
\* wraps a handle of its own.
OneWrapperPerHandle ==
    \A r \in RtPtr, h \in Hnd : wrappers[r][h] <= 1

\* descriptor() was invoked twice on one parse result and both Descriptors
\* are alive, each over its own handle.
TwoDescriptorsAlive ==
    \E r \in Rt, h \in Hnd, g \in Hnd :
      /\ h # g
      /\ kind[r][h] = "Descriptor" /\ wrappers[r][h] = 1
      /\ kind[r][g] = "Descriptor" /\ wrappers[r][g] = 1

\* C26 as stated: every hermes_handle_free is issued by the drop of a Handle
\* wrapper over the handle it releases.
ReleasedOnlyByWrapperDrop ==
    [][\A r \in RtPtr, h \in Hnd :
         freeCalls'[r][h] > freeCalls[r][h] =>
           (wrappers'[r][h] < wrappers[r][h] \/ built'[r][h] > built[r][h])]_vars

\* C26, amended: every hermes_handle_free is issued either by the drop of a
\* Handle wrapper over the handle it releases (a wrapper the caller held, or a
\* temporary one the call built over a handle it fetched), or by imports()
\* for a secondary handle that vue_script_imports_value_at returned earlier in
\* the same call and that was never wrapped; no other operation issues a
\* release.
ReleasedByDropOrImports ==
    [][/\ freeCalls' # freeCalls => trace' # trace
       /\ (trace' # trace /\ Len(trace') > 0) =>
            \A i \in DOMAIN trace' :
              trace'[i][1] = "hermes_handle_free" =>
                LET r == trace'[i][2]
                    h == trace'[i][3]
                IN \/ /\ Len(trace') = 1
                      /\ wrappers'[r][h] = wrappers[r][h] - 1
                   \/ /\ built'[r][h] = built[r][h] + 1
                      /\ \E j \in 1..(i - 1) : trace'[j][2] = r /\ trace'[j][4] = h
                   \/ /\ trace'[1][1] = "vue_script_imports_count"
                      /\ built'[r][h] = 0
                      /\ \E j \in 1..(i - 1) :
                           /\ trace'[j][1] = "vue_script_imports_value_at"
                           /\ trace'[j][2] = r
                           /\ trace'[j][4] = h]_vars

\* imports() walked one entry and released its secondary handle, which no
\* wrapper was ever built over.
ImportsReleasedUnwrapped ==
    /\ Len(trace) = 8
    /\ trace[1][1] = "vue_script_imports_count"
    /\ trace[8][1] = "hermes_handle_free"
    /\ built[trace[8][2]][trace[8][3]] = 0
    /\ freeCalls[trace[8][2]][trace[8][3]] = 1

\* C27 as stated: each has_scoped_style() call fetches every style block, one
\* fetch per index below the style count.
EveryStyleFetched ==
    [][(trace' # trace /\ Len(trace') > 0 /\ iter' = iter
        /\ trace'[1][1] = "vue_descriptor_style_count") =>
         \A i \in 0..(trace'[1][4] - 1) :
           Cardinality({n \in DOMAIN trace' :
                          trace'[n][1] = "vue_descriptor_style_at"
                          /\ trace'[n][3] = i}) = 1]_vars

\* C27, amended: each has_scoped_style() call asks the style count and then
\* fetches the style blocks in index order from 0, one fetch per index, up to
\* and including the first block that answers scoped, and all indices below
\* the count when none does; every handle it is given is a new one, none is
\* kept from an earlier call.
StylesFetchedUpToFirstScoped ==
    [][(trace' # trace /\ Len(trace') > 0 /\ iter' = iter
        /\ trace'[1][1] = "vue_descriptor_style_count") =>
         LET tr == trace'
             r == tr[1][2]
             count == tr[1][4]
             F == {n \in DOMAIN tr : tr[n][1] = "vue_descriptor_style_at"}
             Said == {n \in DOMAIN tr : tr[n][1] = "vue_style_is_scoped" /\ tr[n][4] = 1}
         IN
         /\ \A n \in F : /\ tr[n][3] = Cardinality({m \in F : m < n})
                         /\ tr[n][3] < count
                         /\ tr[n][4] # INVALID =>
                              /\ tr[n][4] >= nextH[r]
                              /\ built[r][tr[n][4]] = 0
         /\ \A n \in Said : \A m \in F : m < n
         /\ Cardinality(F) < count => Said # {}]_vars

\* A second has_scoped_style() call on a descriptor that reports two style
\* blocks: the first block answered scoped and the second was not fetched.
SecondCallStoppedAtFirst ==
    /\ issued["styles"] = 2
    /\ yielded = "true"
    /\ Len(trace) = 4
    /\ trace[1][1] = "vue_descriptor_style_count" /\ trace[1][4] = 2
    /\ trace[2][1] = "vue_descriptor_style_at" /\ trace[2][3] = 0
    /\ trace[3][1] = "vue_style_is_scoped" /\ trace[3][4] = 1

\* C28: once every value has been dropped, every handle the engine issued has
\* been released: in the step that issues hermes_runtime_destroy for a runtime
\* no entry is left in its handle table, the bindings handle compile_template
\* fetched included.
NothingOutstandingAtDestroy ==
    [][\A r \in Rt :
         destroyCalls'[r] > destroyCalls[r] =>
           /\ \A h \in Hnd : wrappers[r][h] = 0
           /\ live[r] = {}]_vars

\* C29: the drop of a wrapper issues one hermes_handle_free, for its own raw
\* handle, and touches nothing else: every other wrapper stays, no release is
\* issued for any other handle, and every other handle stays in the engine's
\* table with its object; so a wrapper derived from another is not released
\* by the other's drop (the handle under a live wrapper is always in the
\* table) and is released by its own drop, before or after.
DropReleasesOwnHandleOnly ==
    [][/\ \A r \in RtPtr, h \in Hnd :
            wrappers'[r][h] < wrappers[r][h] =>
              /\ trace' = << Call("hermes_handle_free", r, h, 0) >>
              /\ \A q \in RtPtr, g \in Hnd :
                   <<q, g>> # <<r, h>> =>
                     /\ wrappers'[q][g] = wrappers[q][g]
                     /\ freeCalls'[q][g] = freeCalls[q][g]
                     /\ (g \in live'[q]) = (g \in live[q])
                     /\ kind'[q][g] = kind[q][g]
       /\ \A r \in RtPtr, h \in Hnd : wrappers'[r][h] > 0 => h \in live'[r]]_vars

\* The ParseOutput over handle 1 has just been dropped while the Descriptor
\* taken from it, over handle 2, is alive and unreleased.
DescriptorOutlivesParseOutput ==
    /\ trace = << Call("hermes_handle_free", 1, 1, 0) >>
    /\ kind[1][2] = "Descriptor"
    /\ wrappers[1][2] = 1
    /\ 2 \in live[1]
    /\ freeCalls[1][2] = 0

TemporariesReleasedInCall ==
    [][(trace' # trace /\ Len(trace') > 0 /\ iter' = iter
        /\ trace'[1][1] \in {"vue_parse_result_error_count",
                             "vue_descriptor_style_count"}) =>
         LET tr == trace'
             F == {n \in DOMAIN tr :
                     /\ tr[n][1] \in {"vue_parse_result_descriptor",
                                      "vue_descriptor_style_at"}
                     /\ tr[n][4] # INVALID}
             R == {n \in DOMAIN tr : tr[n][1] = "hermes_handle_free"}
         IN
         /\ live' = live
         /\ kind' = kind
         /\ wrappers' = wrappers
         /\ Cardinality(R) = Cardinality(F)
         /\ \A n \in F :
              \E m \in R :
                /\ m > n
                /\ tr[m][2] = tr[n][2]
                /\ tr[m][3] = tr[n][4]
                /\ \A k \in F : ~(n < k /\ k < m)]_vars

\* has_scoped_style() fetched two style blocks, neither scoped, and released
\* each before it went on.
TwoTemporariesReleased ==
    /\ yielded = "false"
    /\ Len(trace) = 7
    /\ trace[1][1] = "vue_descriptor_style_count"
    /\ trace[2][1] = "vue_descriptor_style_at" /\ trace[2][4] # INVALID
    /\ trace[4] = Call("hermes_handle_free", trace[2][2], trace[2][4], 0)
    /\ trace[5][1] = "vue_descriptor_style_at" /\ trace[5][4] # INVALID
    /\ trace[7] = Call("hermes_handle_free", trace[5][2], trace[5][4], 0)
    /\ trace[2][4] \notin live[trace[2][2]]
    /\ trace[5][4] \notin live[trace[5][2]]

\* C32: the scalar, string and collection accessors (error_count,
\* has_template, style_count, content, lang, src, loc, attrs, bindings,
\* warnings, deps, css_vars, code) neither acquire nor release a handle: no
\* release is among their engine calls, every call goes to the wrapper's
\* runtime, and the live handles, their objects, the wrappers and the
\* engine's handle counters after the call are those before it.
AccessorsLeaveHandlesAlone ==
    [][(trace' # trace /\ Len(trace') > 0
        /\ trace'[1][1] \in {"vue_parse_result_error_count", "vue_descriptor_has_template",
                             "vue_descriptor_style_count", "vue_descriptor_css_vars_count",
                             "vue_script_warnings_count", "vue_script_deps_count",
                             "vue_script_bindings_count", "vue_block_loc_start_offset",
                             "vue_block_attrs_count", "vue_block_src", "vue_block_content"}) =>
         /\ live' = live /\ kind' = kind /\ wrappers' = wrappers /\ built' = built
         /\ nextH' = nextH /\ issued' = issued /\ freeCalls' = freeCalls
         /\ \A n \in DOMAIN trace' :
              /\ trace'[n][1] # "hermes_handle_free"
              /\ trace'[n][2] = trace'[1][2]]_vars

\* warnings() has returned two entries read off a ScriptBlock that is still
\* wrapped and live, beside its Descriptor and ParseOutput.
WarningsReadOffLiveBlock ==
    /\ Len(trace) = 3
    /\ trace[1][1] = "vue_script_warnings_count"
    /\ trace[1][4] = 2
    /\ trace[1][3] \in live[trace[1][2]]
    /\ wrappers[trace[1][2]][trace[1][3]] = 1
    /\ Cardinality(live[trace[1][2]]) = 3

BindingsArgumentIsQueryAnswer ==
    [][(trace' # trace /\ Len(trace') > 0
        /\ trace'[Len(trace')][1] = "vue_compile_template") =>
         /\ \A r \in Rt :
              Compiler_compile_template(1, r, None) =>
                /\ Len(trace') = 1
                /\ trace'[1][3] = INVALID
         /\ \A r \in Rt, r2 \in Rt, h \in Hnd :
              Compiler_compile_template(1, r, Some(r2, h)) =>
                /\ Len(trace') = 2
                /\ trace'[1][1] = "vue_script_result_bindings"
                /\ trace'[1][2] = r2 /\ trace'[1][3] = h
                /\ kind[r2][h] = "ScriptOutput"
                /\ trace'[2][3] = trace'[1][4]]_vars

\* compile_template was called with Some(script), the bindings query on the
\* ScriptOutput answered 0, and 0 is what vue_compile_template was passed.
CompileCalledWithZeroBindings ==
    /\ Len(trace) = 2
    /\ trace[1][1] = "vue_script_result_bindings"
    /\ trace[2][1] = "vue_compile_template"
    /\ trace[1][4] = INVALID
    /\ trace[2][3] = INVALID
    /\ kind[trace[1][2]][trace[1][3]] = "ScriptOutput"

\* C35: errors() queries the count once, when the iterator is created, and
\* requests nothing then; each next() requests the message at the index the
\* iterator stands at, which is the number of messages yielded so far and is
\* below the count, yields it and moves on by one; at the count next() yields
\* None without a request.  So the iterator yields the messages of the
\* indices 0..count-1 in increasing order, count of them when run to its end,
\* and no message is requested at an index that is not below the count.
ErrorsYieldsCountMessagesInOrder ==
    [][/\ (trace' # trace /\ Len(trace') > 0 /\ iter' # iter
           /\ trace'[1][1] = "vue_parse_result_error_count") =>
            /\ iter = NoIter
            /\ Len(trace') = 1
            /\ iter' = [rt |-> trace'[1][2], raw |-> trace'[1][3], of |-> "errors",
                        idx |-> 0, count |-> trace'[1][4]]
       /\ (iter.of = "errors" /\ busy[1] = {} /\ busy'[1] # {}
           /\ (IF trace' = << >> THEN TRUE
               ELSE trace'[1][1] = "vue_parse_result_error_message")) =>
            IF iter.idx < iter.count
            THEN /\ Len(trace') = 1
                 /\ trace'[1][1] = "vue_parse_result_error_message"
                 /\ trace'[1][2] = iter.rt
                 /\ trace'[1][3] = iter.idx
                 /\ yielded' = SomeStr(ptr_to_str(trace'[1][4]))
                 /\ iter' = [iter EXCEPT !.idx = iter.idx + 1]
            ELSE /\ trace' = << >>
                 /\ yielded' = NoneStr
                 /\ iter' = iter
       /\ (trace' # trace) =>
            \A n \in DOMAIN trace' :
              trace'[n][1] = "vue_parse_result_error_message" =>
                /\ iter.of = "errors"
                /\ trace'[n][3] < iter.count]_vars

\* The iterator of errors() over a count of 2 has yielded its second message,
\* requested at index 1, and stands at the count.
SecondErrorYielded ==
    /\ Len(trace) = 1
    /\ trace[1][1] = "vue_parse_result_error_message"
    /\ trace[1][3] = 1
    /\ iter.of = "errors" /\ iter.idx = 2 /\ iter.count = 2
    /\ yielded = SomeStr(ptr_to_str(trace[1][4]))

\* C36: in the global-runtime generation compile_template and compile_style
\* return an error, issue no engine call and acquire no handle when source,
\* filename or id contains a NUL byte; for every other input they issue
\* their one engine call, passing the three strings NUL-terminated.
NulInputStopsBeforeEngine ==
    [][(busy[1] = {} /\ busy'[1] # {}
        /\ (IF trace' = << >> THEN TRUE
            ELSE trace'[1][1] \in {"vue_compile_template", "vue_compile_style"})) =>
         IF HasNul(input.source) \/ HasNul(input.filename) \/ HasNul(input.id)
         THEN /\ trace' = << >>
              /\ yielded' = ErrNul
              /\ UNCHANGED <<nextH, issued, live, kind, wrappers, built, freeCalls>>
         ELSE /\ Len(trace') = 1
              /\ trace'[1][1] \in {"vue_compile_template", "vue_compile_style"}
              /\ trace'[1][3][1] = input.source \o <<0>>
              /\ trace'[1][3][2] = input.filename \o <<0>>
              /\ trace'[1][3][3] = input.id \o <<0>>
              /\ yielded' # ErrNul]_vars

\* A compile call was refused for a NUL byte in id alone: no engine call was
\* issued for it and the handle table is still empty.
IdWithNulRefused ==
    /\ HasNul(input.id) /\ ~HasNul(input.source) /\ ~HasNul(input.filename)
    /\ Len(input.id) = 2
    /\ busy[1] # {}
    /\ trace = << >>
    /\ yielded = ErrNul
    /\ nextH[Global] = 1 /\ live[Global] = {}

\* C37: in the earliest generation compile_template and compile_batch, for a
\* non-null result, copy the C string and then release it with exactly one
\* vue_free_string before they return, whatever they make of the copy (Ok,
\* the "ERROR: " report, a JSON parse failure); for a null result they
\* return an error and issue no vue_free_string.
CStringFreedOnceAfterCopy ==
    [][(trace' # trace /\ Len(trace') > 0
        /\ trace'[1][1] \in {"vue_compile_template", "vue_compile_batch"}) =>
         LET tr    == trace'
             ptr   == tr[1][4]
             frees == {i \in DOMAIN tr : tr[i][1] = "vue_free_string"}
             reads == {i \in DOMAIN tr : tr[i][1] = "CStr::from_ptr"}
         IN IF ptr = NULL
            THEN /\ frees = {} /\ reads = {}
                 /\ yielded'[1] = "Err"
                 /\ freeCalls' = freeCalls
            ELSE /\ Cardinality(frees) = 1 /\ Cardinality(reads) = 1
                 /\ \A i \in frees : tr[i][3] = ptr
                 /\ \A i \in reads : tr[i][3] = ptr
                 /\ \A i \in frees, j \in reads : j < i
                 /\ freeCalls'[Global][ptr] = 1
                 /\ ptr \notin live'[Global]
                 /\ ~staleRead'
                 /\ yielded'[1] \in {"Ok", "Err"}]_vars

\* compile_batch was handed a string that is not a JSON array: it returned
\* the parse failure, and the string had been released once by then.
ParseFailureAfterRelease ==
    /\ Len(trace) = 3
    /\ trace[1][1] = "vue_compile_batch"
    /\ trace[2][1] = "CStr::from_ptr" /\ trace[2][4] = <<"render()">>
    /\ trace[3][1] = "vue_free_string"
    /\ yielded = <<"Err", "Failed to parse results">>
    /\ freeCalls[Global][trace[1][4]] = 1

\* C38: provided every engine call returns, every call into the layer
\* returns; and a looping accessor (imports, attrs, bindings, warnings, deps,
\* css_vars, and next() of styles, custom_blocks and errors) goes through at
\* most as many rounds as the count it queried at its start, each round at
\* an index below that count and above the index of the round before.
LoopsBoundedAndCallsReturn ==
    /\ [][(trace' # trace /\ Len(trace') > 0) =>
            LET tr     == trace'
                Rounds == {n \in DOMAIN tr :
                             tr[n][1] \in {"vue_script_imports_key_at", "vue_block_attrs_key_at",
                                           "vue_script_bindings_key_at", "vue_script_warning_at",
                                           "vue_script_dep_at", "vue_descriptor_css_var_at",
                                           "vue_descriptor_style_at",
                                           "vue_descriptor_custom_block_at",
                                           "vue_parse_result_error_message"}}
                eager  == tr[1][1] \in {"vue_script_imports_count", "vue_block_attrs_count",
                                        "vue_script_bindings_count", "vue_script_warnings_count",
                                        "vue_script_deps_count", "vue_descriptor_css_vars_count"}
                opened == tr[1][1] \in {"vue_descriptor_style_count",
                                        "vue_descriptor_custom_blocks_count",
                                        "vue_parse_result_error_count"}
                bound  == IF eager \/ opened THEN tr[1][4] ELSE iter.count
            IN (eager \/ opened \/ Rounds # {}) =>
                 /\ Cardinality(Rounds) <= bound
                 /\ \A n \in Rounds : tr[n][3] < bound
                 /\ \A n \in Rounds, m \in Rounds : n < m => tr[n][3] < tr[m][3]
                 /\ opened => (Rounds = {} /\ iter'.idx = 0 /\ iter'.count = bound)
                 /\ ~(eager \/ opened) =>
                      /\ \A n \in Rounds : iter.idx <= tr[n][3] /\ tr[n][3] < iter'.idx
                      /\ iter'.idx <= iter.count
                      /\ iter'.count = iter.count]_vars
    /\ (busy[1] # {} ~> busy[1] = {})

\* deps() over a count of 2 is in its second and last round, at index 1, and
\* has not returned yet.
DepsInLastRound ==
    /\ Len(trace) = 3
    /\ trace[1][1] = "vue_script_deps_count"
    /\ trace[1][4] = 2
    /\ trace[3][1] = "vue_script_dep_at"
    /\ trace[3][3] = 1
    /\ busy[1] # {}
====
